---- MODULE Spec2Model ----
(***************************************************************************)
(* Verification model of the casacore table engine: the ISM bucket         *)
(* (tables/DataMan/ISMBucket.cc), the reference-table row-set algebra      *)
(* (tables/Tables/RefTable.cc) and the serialised record-expression parser *)
(* (tables/TaQL/RecordGram.cc).                                            *)
(***************************************************************************)
EXTENDS Integers, Sequences, FiniteSets, TLC

VARIABLES bkt, res, view, pc, mutex, theirTokens, gram, thr, root, ref, file, ios, arrays, node, aio, wide

vars == <<bkt, res, view, pc, mutex, theirTokens, gram, thr, root, ref, file, ios, arrays, node, aio, wide>>

(***************************************************************************)
(* Row numbers.  rownr_t is a 64-bit unsigned integer.  A row number v is  *)
(* held as the pair <<hi, lo>> with v = hi * 2^31 + lo and 0 <= lo < 2^31, *)
(* so that values beyond the 32-bit range stay exact.                      *)
(***************************************************************************)
MAXROWNR32 == 2147483647

MaxRow == 1

Rn(n) == <<0, n>>

RowLess(a, b) == a[1] < b[1] \/ (a[1] = b[1] /\ a[2] < b[2])

RowLeq(a, b) == a = b \/ RowLess(a, b)

RowInc(a) == IF a[2] = MAXROWNR32 THEN <<a[1] + 1, 0>> ELSE <<a[1], a[2] + 1>>

RowDec(a) == IF a[2] = 0 THEN <<a[1] - 1, MAXROWNR32>> ELSE <<a[1], a[2] - 1>>

\* a - b for a >= b
RowSub(a, b) ==
    IF a[2] >= b[2] THEN <<a[1] - b[1], a[2] - b[2]>>
    ELSE <<a[1] - b[1] - 1, (a[2] - b[2] - 1) + MAXROWNR32 + 1>>

\* 2^32 + 1: a row number beyond the 32-bit range
BigRows == {<<2, 1>>}

Rows == {Rn(n) : n \in 0..MaxRow} \cup BigRows

(***************************************************************************)
(* Storage manager parameters (ISMBase): two columns, the first of fixed   *)
(* length 1, the second of variable length (its value starts with its own  *)
(* total length as a uInt).                                                *)
(***************************************************************************)
FixedLength == <<1, 0>>

ncolumn == Len(FixedLength)

Cols == 1..ncolumn

uIntSize == 4

rownrSize == 8

BucketSize == 67

\* canonical uInt: 4 bytes, least significant first (values below 2^31)
EncodeUInt(v) ==
    <<v % 256, (v \div 256) % 256, (v \div 65536) % 256, (v \div 16777216) % 256>>

DecodeUInt(b) == b[1] + 256 * b[2] + 65536 * b[3] + 16777216 * b[4]

\* canonical rownr_t: 8 bytes, least significant first
EncodeRownr(r) ==
    <<r[2] % 256, (r[2] \div 256) % 256, (r[2] \div 65536) % 256,
      ((r[2] \div 16777216) % 128) + 128 * (r[1] % 2)>>
    \o EncodeUInt(r[1] \div 2)

DecodeRownr(b) ==
    <<(b[4] \div 128) + 2 * DecodeUInt(SubSeq(b, 5, 8)),
      b[1] + 256 * b[2] + 65536 * b[3] + 16777216 * (b[4] % 128)>>

\* uInt tmp32 = rownr: the low 32 bits of the row number, as 4 bytes
EncodeRownr32(r) == SubSeq(EncodeRownr(r), 1, 4)

\* rownr_t = uInt rownr32: widening of the 4 bytes read
DecodeRownr32(b) == DecodeRownr(b \o <<0, 0, 0, 0>>)

\* the values a caller stores: column 1 one byte, column 2 length-prefixed
Values(c) ==
    IF FixedLength[c] # 0 THEN {<<1>>, <<2>>}
    ELSE {EncodeUInt(4), EncodeUInt(5) \o <<9>>}

(***************************************************************************)
(* The bucket: per column the row index and the offset index (indexUsed_p  *)
(* is their length), the data bytes data_p[0 .. dataLeng_p) and the index  *)
(* length.                                                                 *)
(***************************************************************************)
dataLeng(b) == Len(b.data)

indexUsed(b, c) == Len(b.rowIndex[c])

ISMBucket ==
    [rowIndex |-> [c \in Cols |-> <<>>],
     offIndex |-> [c \in Cols |-> <<>>],
     data |-> <<>>,
     indexLeng |-> uIntSize + ncolumn * uIntSize]

\* bytes [off, off+leng) of a byte sequence (off is 0-based)
Bytes(d, off, leng) == SubSeq(d, off + 1, off + leng)

getLength(fixedLength, d, off) ==
    IF fixedLength # 0 THEN fixedLength
    ELSE DecodeUInt(Bytes(d, off, uIntSize))

\* the payload an index entry points at
get(b, c, off) == Bytes(b.data, off, getLength(FixedLength[c], b.data, off))

canReplaceData(b, newLeng, oldLeng) ==
    dataLeng(b) + newLeng - oldLeng + b.indexLeng <= BucketSize

\* a variant that forgets the index entry the new value needs
canAddDataNoIndex(b, leng) == dataLeng(b) + leng + b.indexLeng <= BucketSize

canAddData(b, leng) ==
    dataLeng(b) + leng + b.indexLeng + uIntSize + rownrSize <= BucketSize

insertData(b, d) == [b EXCEPT !.data = b.data \o d]

removeData(b, offset, fixedLeng) ==
    LET leng == getLength(fixedLeng, b.data, offset)
        newLeng == dataLeng(b) - leng
    IN  IF newLeng > offset
        THEN [b EXCEPT
                !.data = SubSeq(b.data, 1, offset)
                           \o Bytes(b.data, offset + leng, newLeng - offset),
                !.offIndex = [c \in Cols |->
                    [j \in 1..Len(b.offIndex[c]) |->
                        IF b.offIndex[c][j] > offset
                        THEN b.offIndex[c][j] - leng
                        ELSE b.offIndex[c][j]]]]
        ELSE [b EXCEPT !.data = SubSeq(b.data, 1, newLeng)]

\* DebugAssert of addData; index is 0-based as in the code
addDataPre(b, colnr, rownr, index) ==
    LET rowIndex == b.rowIndex[colnr]
        nrused == Len(rowIndex)
    IN  /\ index <= nrused
        /\ (IF index = 0 THEN TRUE ELSE RowLess(rowIndex[index], rownr))
        /\ (IF index = nrused THEN TRUE ELSE RowLeq(rownr, rowIndex[index + 1]))

addData(b, colnr, rownr, index, d) ==
    LET rowIndex == b.rowIndex[colnr]
        offIndex == b.offIndex[colnr]
        nrused == Len(rowIndex)
        bumped == IF index < nrused /\ rownr = rowIndex[index + 1]
                  THEN [rowIndex EXCEPT ![index + 1] = RowInc(rowIndex[index + 1])]
                  ELSE rowIndex
    IN  [rowIndex |-> [b.rowIndex EXCEPT ![colnr] =
                         SubSeq(bumped, 1, index) \o <<rownr>>
                           \o SubSeq(bumped, index + 1, nrused)],
         offIndex |-> [b.offIndex EXCEPT ![colnr] =
                         SubSeq(offIndex, 1, index) \o <<dataLeng(b)>>
                           \o SubSeq(offIndex, index + 1, nrused)],
         data |-> insertData(b, d).data,
         indexLeng |-> b.indexLeng + uIntSize + rownrSize]

\* a variant that removes and inserts also when the length is unchanged
replaceDataAlwaysMoves(b, colnr, index, d) ==
    LET offset == b.offIndex[colnr][index + 1]
        r == removeData(b, offset, getLength(FixedLength[colnr], b.data, offset))
    IN  [insertData(r, d) EXCEPT !.offIndex[colnr][index + 1] = dataLeng(r)]

\* replaceData on the entry (colnr, index) (0-based index); the caller passes
\* the entry's offset by reference and the old length of its value
replaceData(b, colnr, index, d) ==
    LET offset == b.offIndex[colnr][index + 1]
        oldLeng == getLength(FixedLength[colnr], b.data, offset)
    IN  IF oldLeng = Len(d)
        THEN [b EXCEPT !.data = SubSeq(b.data, 1, offset) \o d
                         \o SubSeq(b.data, offset + Len(d) + 1, Len(b.data))]
        ELSE LET r == removeData(b, offset, oldLeng)
             IN  [insertData(r, d) EXCEPT
                    !.offIndex[colnr][index + 1] = dataLeng(r)]

RECURSIVE shiftLeftRemove(_, _, _, _, _)
shiftLeftRemove(b, colnr, index, i, nr) ==
    IF i = nr THEN b
    ELSE shiftLeftRemove(
           removeData(b, b.offIndex[colnr][index + i + 1], FixedLength[colnr]),
           colnr, index, i + 1, nr)

shiftLeft(b, colnr, index, nr) ==
    LET r == shiftLeftRemove(b, colnr, index, 0, nr)
        nused == Len(r.rowIndex[colnr])
    IN  [r EXCEPT
           !.rowIndex[colnr] = SubSeq(r.rowIndex[colnr], 1, index)
                                 \o SubSeq(r.rowIndex[colnr], index + nr + 1, nused),
           !.offIndex[colnr] = SubSeq(r.offIndex[colnr], 1, index)
                                 \o SubSeq(r.offIndex[colnr], index + nr + 1, nused),
           !.indexLeng = r.indexLeng - nr * (uIntSize + rownrSize)]

check(b) ==
    \A c \in Cols : \A it \in 2..Len(b.rowIndex[c]) :
        RowLess(b.rowIndex[c][it - 1], b.rowIndex[c][it])

(***************************************************************************)
(* write and read of the bucket storage                                    *)
(***************************************************************************)
RECURSIVE Flatten(_)
Flatten(ss) == IF ss = <<>> THEN <<>> ELSE Head(ss) \o Flatten(Tail(ss))

\* a variant that always writes 32-bit row numbers
writeAlways32(b) == TRUE

\* "See if all rownrs fit in 32 bits": the last row of each column is tested
writeUse32(b) ==
    \A i \in Cols :
        LET nr == indexUsed(b, i)
        IN  ~(nr > 0 /\ RowLess(<<0, MAXROWNR32>>, b.rowIndex[i][nr]))

\* woffset: the index offset, with the high bit set for 64-bit row numbers
writeOffsetWord(offset, use32) ==
    LET w == EncodeUInt(offset)
    IN  IF use32 THEN w ELSE [w EXCEPT ![4] = (w[4] % 128) + 128]

writeColumn(b, i, use32) ==
    EncodeUInt(indexUsed(b, i))
      \o Flatten([j \in 1..indexUsed(b, i) |->
                    IF use32 THEN EncodeRownr32(b.rowIndex[i][j])
                    ELSE EncodeRownr(b.rowIndex[i][j])])
      \o Flatten([j \in 1..indexUsed(b, i) |-> EncodeUInt(b.offIndex[i][j])])

write(b) ==
    LET use32 == writeUse32(b)
    IN  writeOffsetWord(dataLeng(b) + uIntSize, use32)
          \o b.data
          \o Flatten([i \in Cols |-> writeColumn(b, i, use32)])

\* the row-number width read selects from the high 4 bits of the offset word
readUse32(s) == (s[4] \div 16) = 0

readOffset(s) == DecodeUInt([SubSeq(s, 1, 4) EXCEPT ![4] = s[4] % 16])

RECURSIVE readIndex(_, _, _, _, _)
readIndex(s, use32, offset, i, acc) ==
    IF i > ncolumn THEN acc
    ELSE LET nr == DecodeUInt(Bytes(s, offset, uIntSize))
             rowLen == IF use32 THEN uIntSize ELSE rownrSize
             rowsAt == offset + uIntSize
             offsAt == rowsAt + nr * rowLen
         IN  readIndex(s, use32, offsAt + nr * uIntSize, i + 1,
               [acc EXCEPT
                  !.rowIndex[i] = [j \in 1..nr |->
                      IF use32
                      THEN DecodeRownr32(Bytes(s, rowsAt + (j - 1) * rowLen, rowLen))
                      ELSE DecodeRownr(Bytes(s, rowsAt + (j - 1) * rowLen, rowLen))],
                  !.offIndex[i] = [j \in 1..nr |->
                      DecodeUInt(Bytes(s, offsAt + (j - 1) * uIntSize, uIntSize))],
                  !.indexLeng = acc.indexLeng + uIntSize
                                  + nr * (uIntSize + rownrSize)])

read(s) ==
    LET offset == readOffset(s)
    IN  readIndex(s, readUse32(s), offset, 1,
          [ISMBucket EXCEPT
             !.data = Bytes(s, uIntSize, offset - uIntSize),
             !.indexLeng = uIntSize])

(***************************************************************************)
(* get: binary search for the interval holding a row                       *)
(***************************************************************************)
\* casa/Utilities/BinarySearch: index of the match, or of the next greater
\* element when there is none
RECURSIVE bsLoop(_, _, _, _, _, _)
bsLoop(container, value, ascending, lower, upper, middle) ==
    IF lower > upper THEN [found |-> FALSE, inx |-> middle]
    ELSE LET mid == (upper + lower) \div 2
             midval == container[mid + 1]
             toLeft == IF ascending THEN RowLess(value, midval)
                       ELSE RowLess(midval, value)
             toRight == IF ascending THEN RowLess(midval, value)
                        ELSE RowLess(value, midval)
         IN  IF toLeft THEN bsLoop(container, value, ascending, lower, mid - 1, mid)
             ELSE IF toRight
                  THEN bsLoop(container, value, ascending, mid + 1, upper, mid + 1)
                  ELSE [found |-> TRUE, inx |-> mid]

binarySearchBrackets(container, value, n) ==
    IF n = 0 THEN [found |-> FALSE, inx |-> 0]
    ELSE bsLoop(container, value, ~RowLess(container[n], container[1]), 0, n - 1, 0)

\* whether the search ends on an index entry: otherwise inx-- wraps below 0
\* and the code indexes the blocks out of bounds
intervalDefined(b, colnr, rownr) ==
    LET s == binarySearchBrackets(b.rowIndex[colnr], rownr, indexUsed(b, colnr))
    IN  s.found \/ s.inx > 0

getInterval(b, colnr, rownr, bucketNrrow) ==
    LET rowIndex == b.rowIndex[colnr]
        s == binarySearchBrackets(rowIndex, rownr, indexUsed(b, colnr))
        inx == IF s.found THEN s.inx ELSE s.inx - 1
    IN  [index |-> s.inx,
         offset |-> b.offIndex[colnr][inx + 1],
         start |-> rowIndex[inx + 1],
         end |-> RowDec(IF inx + 1 = indexUsed(b, colnr) THEN bucketNrrow
                        ELSE rowIndex[inx + 2])]

getOffset(b, colnr, rownr) ==
    LET s == binarySearchBrackets(b.rowIndex[colnr], rownr, indexUsed(b, colnr))
    IN  b.offIndex[colnr][(IF s.found THEN s.inx ELSE s.inx - 1) + 1]

(***************************************************************************)
(* split                                                                   *)
(***************************************************************************)
copyData(b, other, colnr, toRownr, fromIndex, toIndex) ==
    addData(other, colnr, toRownr, toIndex,
            get(b, colnr, b.offIndex[colnr][fromIndex + 1]))

\* whether the cursor of column i stands on an entry of the given row
atRow(b, cursor, i, row) ==
    cursor[i] < indexUsed(b, i) /\ b.rowIndex[i][cursor[i] + 1] = row

RowMax(a, b) == IF RowLess(a, b) THEN b ELSE a

RECURSIVE simpleLastRow(_, _, _)
simpleLastRow(b, i, lastRow) ==
    IF i > ncolumn THEN lastRow
    ELSE simpleLastRow(b, i + 1, RowMax(lastRow, b.rowIndex[i][indexUsed(b, i)]))

RECURSIVE simpleSplitCols(_, _, _, _)
simpleSplitCols(b, rownr, i, acc) ==
    IF i > ncolumn THEN acc
    ELSE LET index == indexUsed(b, i) - 1
             row == b.rowIndex[i][index + 1]
             right == copyData(b, acc.right, i, Rn(0), index, 0)
         IN  simpleSplitCols(b, rownr, i + 1,
               IF row = rownr
               THEN [acc EXCEPT !.right = right,
                                !.left = shiftLeft(acc.left, i, index, 1),
                                !.duplicated[i] = FALSE]
               ELSE [acc EXCEPT !.right = right, !.duplicated[i] = TRUE])

simpleSplit(b, rownr) ==
    IF RowLess(rownr, simpleLastRow(b, 1, Rn(0)))
    THEN [done |-> FALSE]
    ELSE simpleSplitCols(b, rownr, 1,
           [done |-> TRUE, simple |-> TRUE, left |-> b, right |-> ISMBucket,
            duplicated |-> [i \in Cols |-> FALSE], splitRownr |-> rownr])

\* GenSort, ascending, no duplicates
RECURSIVE sortUnique(_)
sortUnique(S) ==
    IF S = {} THEN <<>>
    ELSE LET m == CHOOSE x \in S : \A y \in S : RowLeq(x, y)
         IN  <<m>> \o sortUnique(S \ {m})

splitRows(b, rownr) ==
    sortUnique({rownr} \cup UNION {{b.rowIndex[i][j] : j \in 1..indexUsed(b, i)}
                                     : i \in Cols})

\* itemLeng(i,j) of the values found by walking the cursors over the rows
RECURSIVE itemLengWalk(_, _, _, _, _)
itemLengWalk(b, rows, j, cursor, acc) ==
    IF j > Len(rows) THEN acc
    ELSE itemLengWalk(b, rows, j + 1,
           [i \in Cols |-> IF atRow(b, cursor, i, rows[j]) THEN cursor[i] + 1
                           ELSE cursor[i]],
           Append(acc,
             [i \in Cols |->
                IF atRow(b, cursor, i, rows[j])
                THEN 2 * uIntSize
                       + getLength(FixedLength[i], b.data, b.offIndex[i][cursor[i] + 1])
                ELSE 0]))

splitItemLeng(b, rows, colnr, rownr, lengToAdd) ==
    LET itemLeng == itemLengWalk(b, rows, 1, [i \in Cols |-> 0], <<>>)
        index == CHOOSE j \in 1..Len(rows) : rows[j] = rownr
    IN  [itemLeng EXCEPT ![index][colnr] =
           IF @ = 0 THEN lengToAdd + 2 * uIntSize ELSE @ + lengToAdd]

\* size, rowLeng, cumLeng and totLeng; the columns of a row are summed in turn
RECURSIVE splitLengths(_, _, _, _)
splitLengths(itemLeng, j, size, acc) ==
    IF j > Len(itemLeng) THEN acc
    ELSE LET newSize == [i \in Cols |-> IF itemLeng[j][i] # 0 THEN itemLeng[j][i]
                                        ELSE size[i]]
             RECURSIVE sum(_, _)
             sum(f, i) == IF i > ncolumn THEN 0 ELSE f[i] + sum(f, i + 1)
             totLeng == acc.totLeng + sum(itemLeng[j], 1)
         IN  splitLengths(itemLeng, j + 1, newSize,
               [rowLeng |-> Append(acc.rowLeng, sum(newSize, 1)),
                cumLeng |-> Append(acc.cumLeng, totLeng),
                totLeng |-> totLeng])

\* getSplit: rowLeng and cumLeng are 1-based here, the result is the 0-based
\* index of the code
RECURSIVE getSplitLoop(_, _, _, _, _)
getSplitLoop(totLeng, rowLeng, cumLeng, i, diff) ==
    IF cumLeng[i] < rowLeng[i + 1] + totLeng - cumLeng[i + 1]
         /\ i < Len(rowLeng) - 1
    THEN getSplitLoop(totLeng, rowLeng, cumLeng, i + 1,
                      rowLeng[i + 1] + totLeng - cumLeng[i + 1] - cumLeng[i])
    ELSE [i |-> i, diff |-> diff]

getSplit(totLeng, rowLeng, cumLeng) ==
    IF Len(rowLeng) <= 2 THEN 1
    ELSE LET l == getSplitLoop(totLeng, rowLeng, cumLeng, 1, 0)
             i == l.i
             \* uInt arithmetic: a negative difference wraps to 2^32 + x, which
             \* is above every diff
             x == cumLeng[i] + cumLeng[i + 1] - rowLeng[i + 1] - totLeng
         IN  IF l.diff > 0 /\ (x < 0 \/ x > l.diff) THEN i - 1 ELSE i

\* copy the entries of one row into the left bucket
RECURSIVE copyRowLeft(_, _, _, _)
copyRowLeft(b, row, i, acc) ==
    IF i > ncolumn THEN acc
    ELSE copyRowLeft(b, row, i + 1,
           IF atRow(b, acc.cursor, i, row)
           THEN [acc EXCEPT
                   !.left = copyData(b, acc.left, i, row, acc.cursor[i], acc.cursor[i]),
                   !.cursor[i] = @ + 1]
           ELSE acc)

RECURSIVE copyLeft(_, _, _, _, _)
copyLeft(b, rows, j, index, acc) ==
    IF j >= index THEN acc
    ELSE copyLeft(b, rows, j + 1, index, copyRowLeft(b, rows[j + 1], 1, acc))

\* the start values of the right bucket, and the duplicated switch
RECURSIVE copyStart(_, _, _)
copyStart(b, i, acc) ==
    IF i > ncolumn THEN acc
    ELSE copyStart(b, i + 1,
           IF atRow(b, acc.cursor, i, acc.splitRownr)
           THEN [acc EXCEPT
                   !.right = copyData(b, acc.right, i, Rn(0), acc.cursor[i], 0),
                   !.cursor[i] = @ + 1,
                   !.duplicated[i] = FALSE]
           ELSE [acc EXCEPT
                   !.right = copyData(b, acc.right, i, Rn(0), acc.cursor[i] - 1, 0),
                   !.duplicated[i] = TRUE])

RECURSIVE copyRowRight(_, _, _, _)
copyRowRight(b, row, i, acc) ==
    IF i > ncolumn THEN acc
    ELSE copyRowRight(b, row, i + 1,
           IF atRow(b, acc.cursor, i, row)
           THEN [acc EXCEPT
                   !.right = copyData(b, acc.right, i, RowSub(row, acc.splitRownr),
                                      acc.cursor[i], acc.toCursor[i]),
                   !.cursor[i] = @ + 1,
                   !.toCursor[i] = @ + 1]
           ELSE acc)

RECURSIVE copyRight(_, _, _, _)
copyRight(b, rows, index, acc) ==
    IF index >= Len(rows) THEN acc
    ELSE copyRight(b, rows, index + 1, copyRowRight(b, rows[index + 1], 1, acc))

\* split; tryLast is bucketStartRow + bucketNrrow >= stmanPtr_p->nrow()
split(b, tryLast, colnr, rownr, lengToAdd) ==
    LET simple == simpleSplit(b, rownr)
        rows == splitRows(b, rownr)
        lens == splitLengths(splitItemLeng(b, rows, colnr, rownr, lengToAdd), 1,
                             [i \in Cols |-> 0],
                             [rowLeng |-> <<>>, cumLeng |-> <<>>, totLeng |-> 0])
        index == getSplit(lens.totLeng, lens.rowLeng, lens.cumLeng)
        start == [done |-> TRUE, simple |-> FALSE, left |-> ISMBucket,
                  right |-> ISMBucket, duplicated |-> [i \in Cols |-> FALSE],
                  splitRownr |-> rows[index + 1],
                  cursor |-> [i \in Cols |-> 0], toCursor |-> [i \in Cols |-> 1]]
        full == copyRight(b, rows, index + 1,
                  copyStart(b, 1, copyLeft(b, rows, 0, index, start)))
    IN  IF tryLast /\ simple.done THEN simple
        ELSE IF Len(rows) = 1 THEN simple
        ELSE [done |-> TRUE, simple |-> FALSE, left |-> full.left,
              right |-> full.right, duplicated |-> full.duplicated,
              splitRownr |-> full.splitRownr]

(***************************************************************************)
(* Reference table: the row list of a view and the set algebra on two      *)
(* ascending row-number arrays.  rowStorage is the allocated vector, of    *)
(* which the first nrrow elements are the rows of the view.                *)
(***************************************************************************)
MaxRefRow == 3

RefRows == 0..MaxRefRow

\* std::numeric_limits<rownr_t>::max(), the end marker of the merge loops;
\* it stands above every row number of the model
rownrEnd == 2147483646

\* an element of the vector that was allocated and not written
Unset == -1

\* RefTable (BaseTable*, Bool order, rownr_t nrall)
RefTable(order, nrall) ==
    [rowStorage |-> [k \in 1..nrall |-> Unset], nrrow |-> nrall, rowOrd |-> order]

\* rowStorage_p.resize (allrow) followed by rows[nrrow_p++] = row for the
\* rows emitted
storeRows(v, allrow, out) ==
    [v EXCEPT
       !.rowStorage = [k \in 1..allrow |->
                         IF v.nrrow < k /\ k <= v.nrrow + Len(out)
                         THEN out[k - v.nrrow] ELSE Unset],
       !.nrrow = v.nrrow + Len(out)]

nextRow(inx, i) == IF i >= Len(inx) THEN rownrEnd ELSE inx[i + 1]

RECURSIVE refAndLoop(_, _, _, _, _)
refAndLoop(inx1, inx2, i1, i2, out) ==
    LET row1 == nextRow(inx1, i1)
        row2 == nextRow(inx2, i2)
    IN  IF row1 = row2
        THEN IF row1 = rownrEnd THEN out
             ELSE refAndLoop(inx1, inx2, i1 + 1, i2 + 1, Append(out, row1))
        ELSE IF row1 < row2 THEN refAndLoop(inx1, inx2, i1 + 1, i2, out)
             ELSE refAndLoop(inx1, inx2, i1, i2 + 1, out)

\* a variant that keeps the first array as it is
refAndKeepsFirst(v, inx1, inx2) == storeRows(v, Len(inx1), inx1)

refAnd(v, inx1, inx2) ==
    storeRows(v, IF Len(inx1) < Len(inx2) THEN Len(inx1) ELSE Len(inx2),
              refAndLoop(inx1, inx2, 0, 0, <<>>))

RECURSIVE refOrLoop(_, _, _, _, _)
refOrLoop(inx1, inx2, i1, i2, out) ==
    LET row1 == nextRow(inx1, i1)
        row2 == nextRow(inx2, i2)
    IN  IF row1 = row2
        THEN IF row1 = rownrEnd THEN out
             ELSE refOrLoop(inx1, inx2, i1 + 1, i2 + 1, Append(out, row1))
        ELSE IF row1 < row2 THEN refOrLoop(inx1, inx2, i1 + 1, i2, Append(out, row1))
             ELSE refOrLoop(inx1, inx2, i1, i2 + 1, Append(out, row2))

refOr(v, inx1, inx2) ==
    storeRows(v, Len(inx1) + Len(inx2), refOrLoop(inx1, inx2, 0, 0, <<>>))

RECURSIVE refSubLoop(_, _, _, _, _)
refSubLoop(inx1, inx2, i1, i2, out) ==
    LET row1 == nextRow(inx1, i1)
        row2 == nextRow(inx2, i2)
    IN  IF row1 = row2
        THEN IF row1 = rownrEnd THEN out
             ELSE refSubLoop(inx1, inx2, i1 + 1, i2 + 1, out)
        ELSE IF row1 < row2 THEN refSubLoop(inx1, inx2, i1 + 1, i2, Append(out, row1))
             ELSE refSubLoop(inx1, inx2, i1, i2 + 1, out)

\* a variant that removes nothing
refSubKeepsAll(v, inx1, inx2) == storeRows(v, Len(inx1), inx1)

refSub(v, inx1, inx2) ==
    storeRows(v, Len(inx1), refSubLoop(inx1, inx2, 0, 0, <<>>))

RECURSIVE refXorLoop(_, _, _, _, _)
refXorLoop(inx1, inx2, i1, i2, out) ==
    LET row1 == nextRow(inx1, i1)
        row2 == nextRow(inx2, i2)
    IN  IF row1 = row2
        THEN IF row1 = rownrEnd THEN out
             ELSE refXorLoop(inx1, inx2, i1 + 1, i2 + 1, out)
        ELSE IF row1 < row2 THEN refXorLoop(inx1, inx2, i1 + 1, i2, Append(out, row1))
             ELSE refXorLoop(inx1, inx2, i1, i2 + 1, Append(out, row2))

\* a variant that also keeps the rows the two arrays share
refXorKeepsShared(v, inx1, inx2) == refOr(v, inx1, inx2)

refXor(v, inx1, inx2) ==
    storeRows(v, Len(inx1) + Len(inx2), refXorLoop(inx1, inx2, 0, 0, <<>>))

\* the rows start .. end-1, in order
RECURSIVE rowRange(_, _)
rowRange(start, end) ==
    IF start >= end THEN <<>> ELSE <<start>> \o rowRange(start + 1, end)

\* a variant that restarts at the listed row instead of the row after it
RECURSIVE refNotFromListed(_, _, _, _, _)
refNotFromListed(inx, nrtot, i, start, out) ==
    IF i >= Len(inx) THEN out \o rowRange(start, nrtot)
    ELSE refNotFromListed(inx, nrtot, i + 1, inx[i + 1],
                          out \o rowRange(start, inx[i + 1]))

RECURSIVE refNotLoop(_, _, _, _, _)
refNotLoop(inx, nrtot, i, start, out) ==
    IF i >= Len(inx) THEN out \o rowRange(start, nrtot)
    ELSE refNotLoop(inx, nrtot, i + 1, inx[i + 1] + 1,
                    out \o rowRange(start, inx[i + 1]))

refNot(v, inx, nrtot) ==
    storeRows(v, nrtot - Len(inx), refNotLoop(inx, nrtot, 0, 0, <<>>))

\* the strictly ascending row-number arrays over a set of rows
RECURSIVE SortedSeq(_)
SortedSeq(S) ==
    IF S = {} THEN <<>>
    ELSE LET m == CHOOSE x \in S : \A y \in S : x <= y
         IN  <<m>> \o SortedSeq(S \ {m})

Range(q) == {q[k] : k \in 1..Len(q)}

AscendingSeqs == {SortedSeq(S) : S \in SUBSET RefRows}

otherVarsView == <<bkt, res, pc, mutex, theirTokens, gram, thr, root, ref, file, ios, arrays, node, aio, wide>>

InitView ==
    view = [table |-> RefTable(TRUE, 0), op |-> "new", a |-> <<>>, b |-> <<>>,
            nrtot |-> 0]

\* the set operations of BaseTable make a view of zero rows and let it
\* combine the two row-number arrays
RefAnd ==
    \E a \in AscendingSeqs : \E b \in AscendingSeqs :
        /\ view.op = "new"
        /\ view' = [table |-> refAnd(view.table, a, b), op |-> "and",
                    a |-> a, b |-> b, nrtot |-> 0]
        /\ UNCHANGED otherVarsView

RefOr ==
    \E a \in AscendingSeqs : \E b \in AscendingSeqs :
        /\ view.op = "new"
        /\ view' = [table |-> refOr(view.table, a, b), op |-> "or",
                    a |-> a, b |-> b, nrtot |-> 0]
        /\ UNCHANGED otherVarsView

RefSub ==
    \E a \in AscendingSeqs : \E b \in AscendingSeqs :
        /\ view.op = "new"
        /\ view' = [table |-> refSub(view.table, a, b), op |-> "sub",
                    a |-> a, b |-> b, nrtot |-> 0]
        /\ UNCHANGED otherVarsView

RefXor ==
    \E a \in AscendingSeqs : \E b \in AscendingSeqs :
        /\ view.op = "new"
        /\ view' = [table |-> refXor(view.table, a, b), op |-> "xor",
                    a |-> a, b |-> b, nrtot |-> 0]
        /\ UNCHANGED otherVarsView

\* the rows of a are rows of a table of nrtot rows
RefNot ==
    \E a \in AscendingSeqs : \E nrtot \in 0..(MaxRefRow + 1) :
        /\ view.op = "new"
        /\ \A r \in Range(a) : r < nrtot
        /\ view' = [table |-> refNot(view.table, a, nrtot), op |-> "not",
                    a |-> a, b |-> <<>>, nrtot |-> nrtot]
        /\ UNCHANGED otherVarsView

(***************************************************************************)
(* A view that is filled row by row: RefTable (BaseTable*, Bool, rownr_t)  *)
(* followed by addRownr, addRownrRange, removeRow and setNrrow.            *)
(***************************************************************************)
MaxOrdRows == 3

\* the number of elements by which addRownr lets a full vector grow (1024)
GrowRows == 2

\* rowStorage_p.resize (nrow, True): the elements are kept
resizeRows(rowStorage, nrow) ==
    [k \in 1..nrow |-> IF k <= Len(rowStorage) THEN rowStorage[k] ELSE Unset]

addRownr(t, rnr) ==
    LET nrow == Len(t.rowStorage)
        grown == IF nrow + GrowRows > (12 * nrow) \div 10 THEN nrow + GrowRows
                 ELSE (12 * nrow) \div 10
        rows == IF t.nrrow >= nrow THEN resizeRows(t.rowStorage, grown)
                ELSE t.rowStorage
    IN  [t EXCEPT !.rowStorage = [rows EXCEPT ![t.nrrow + 1] = rnr],
                  !.nrrow = t.nrrow + 1]

addRownrRange(t, startRownr, endRownr) ==
    LET new_nrrow == t.nrrow + endRownr - startRownr + 1
        rows == IF new_nrrow > Len(t.rowStorage)
                THEN resizeRows(t.rowStorage, new_nrrow) ELSE t.rowStorage
    IN  [t EXCEPT !.rowStorage = [k \in 1..Len(rows) |->
                                    IF t.nrrow < k /\ k <= new_nrrow
                                    THEN startRownr + (k - t.nrrow - 1)
                                    ELSE rows[k]],
                  !.nrrow = new_nrrow]

\* setNrrow throws for a number above the current one
setNrrow(t, nrrow) == IF nrrow > t.nrrow THEN t ELSE [t EXCEPT !.nrrow = nrrow]

filling == view.op \in {"made", "rows"}

filled(t) == [table |-> t, op |-> "rows", a |-> <<>>, b |-> <<>>, nrtot |-> 0]

MakeRefTable ==
    \E order \in BOOLEAN : \E nrall \in 0..1 :
        /\ view.op = "new"
        /\ view' = [filled(RefTable(order, nrall)) EXCEPT !.op = "made"]
        /\ UNCHANGED otherVarsView

AddRownr ==
    \E rnr \in RefRows :
        /\ filling
        /\ view.table.nrrow < MaxOrdRows
        /\ view' = filled(addRownr(view.table, rnr))
        /\ UNCHANGED otherVarsView

AddRownrRange ==
    \E startRownr \in RefRows : \E endRownr \in RefRows :
        /\ filling
        /\ startRownr <= endRownr
        /\ view.table.nrrow + endRownr - startRownr + 1 <= MaxOrdRows
        /\ view' = filled(addRownrRange(view.table, startRownr, endRownr))
        /\ UNCHANGED otherVarsView

\* removeRow throws for a row that is not in the view
RemoveViewRow ==
    \E rownr \in 0..view.table.nrrow :
        /\ filling
        /\ view' = IF rownr >= view.table.nrrow THEN view
                   ELSE filled([rowStorage |-> [k \in 1..Len(view.table.rowStorage) |->
                                   IF k - 1 >= rownr /\ k - 1 < view.table.nrrow - 1
                                   THEN view.table.rowStorage[k + 1]
                                   ELSE view.table.rowStorage[k]],
                                nrrow |-> view.table.nrrow - 1,
                                rowOrd |-> view.table.rowOrd])
        /\ UNCHANGED otherVarsView

SetNrrow ==
    \E nrrow \in 0..(view.table.nrrow + 1) :
        /\ filling
        /\ view' = filled(setNrrow(view.table, nrrow))
        /\ UNCHANGED otherVarsView

(***************************************************************************)

(* RecordGram: the parser of record expressions.  The scanner state        *)
(* (strpRecordGram, posRecordGram), the context pointers and the token     *)
(* table are process-wide; parse serialises its callers with theirMutex.   *)
(***************************************************************************)
NThreads == 2

Threads == 1..NThreads

MaxCmdLen == 2

\* the expression thread t hands to parse: MaxCmdLen characters of its own
Expression(t) == [k \in 1..MaxCmdLen |-> <<t, k>>]

newline == <<0, 0>>

\* String command = expression + '\n'
Command(t) == Append(Expression(t), newline)

\* a variant without the lock guard
lockNever(m) == TRUE

\* std::lock_guard<std::mutex> lock(theirMutex): the caller proceeds only
\* when no thread holds the mutex (0)
lockAcquirable(m) == m = 0

\* String::before (pos)
before(command, pos) == SubSeq(command, 1, pos)

\* the address of a newly allocated token object
newToken(heap) == CHOOSE p \in 1..(Cardinality(heap) + 1) : p \notin heap

\* a variant that clears the table and deletes nothing
clearTokenTable(g, tokens) == [gram |-> g, tokens |-> {}]

\* deleteTokenStorage: every tracked token is deleted, the table is cleared
deleteTokenStorage(g, tokens) ==
    [gram |-> [g EXCEPT !.heap = g.heap \ tokens], tokens |-> {}]

otherVarsGram == <<bkt, res, view, root, ref, file, ios, arrays, node, aio, wide>>

InSection(t) == pc[t] \in {"locked", "parsing", "afterTry", "cleaned"}

InitGram ==
    /\ pc = [t \in Threads |-> "idle"]
    /\ mutex = 0
    /\ theirTokens = {}
    /\ gram = [recPtr |-> 0, tabPtr |-> 0, strpOf |-> 0, strp |-> 0, pos |-> 0,
               heap |-> {}]
    /\ thr = [t \in Threads |->
                [command |-> <<>>, kind |-> "none", scanned |-> 0,
                 error |-> FALSE, message |-> "", outcome |-> "none",
                 text |-> <<>>]]

\* parse (record, expression) or parse (table, expression) is entered: the
\* lock guard takes theirMutex
ParseLock(t) ==
    \E kind \in {"record", "table"} :
        /\ pc[t] = "idle"
        /\ lockAcquirable(mutex)
        /\ mutex' = t
        /\ pc' = [pc EXCEPT ![t] = "locked"]
        /\ thr' = [thr EXCEPT ![t].command = Command(t), ![t].kind = kind]
        /\ UNCHANGED <<theirTokens, gram>>
        /\ UNCHANGED otherVarsGram

\* the context pointers are set, doParse clears the token table and
\* recordGramParseCommand points the scanner at the command
ParseBegin(t) ==
    /\ pc[t] = "locked"
    /\ gram' = [gram EXCEPT
                  !.recPtr = IF thr[t].kind = "record" THEN t ELSE 0,
                  !.tabPtr = IF thr[t].kind = "table" THEN t ELSE 0,
                  !.strpOf = t, !.strp = 0, !.pos = 0]
    /\ theirTokens' = {}
    /\ pc' = [pc EXCEPT ![t] = "parsing"]
    /\ UNCHANGED <<mutex, thr>>
    /\ UNCHANGED otherVarsGram

\* recordGramInput: the scanner's buffer is filled with the next characters
\* of the command, as many as the buffer takes
ParseInput(t) ==
    /\ pc[t] = "parsing"
    /\ gram.strp < Len(thr[gram.strpOf].command)
    /\ \E nr \in 1..(Len(thr[gram.strpOf].command) - gram.strp) :
           gram' = [gram EXCEPT !.strp = @ + nr]
    /\ UNCHANGED <<pc, mutex, theirTokens, thr>>
    /\ UNCHANGED otherVarsGram

\* the scanner matches a character of its buffer and moves the position; the
\* grammar may make a token, which addToken tracks
ParseScan(t) ==
    \E makesToken \in BOOLEAN :
        /\ pc[t] = "parsing"
        /\ gram.pos < gram.strp
        /\ gram' = [gram EXCEPT
                      !.pos = @ + 1,
                      !.heap = IF makesToken THEN @ \cup {newToken(gram.heap)}
                               ELSE @]
        /\ theirTokens' = IF makesToken
                          THEN theirTokens \cup {newToken(gram.heap)}
                          ELSE theirTokens
        /\ thr' = [thr EXCEPT ![t].scanned = @ + 1]
        /\ UNCHANGED <<pc, mutex>>
        /\ UNCHANGED otherVarsGram

\* deleteToken: a grammar rule has used a token object
ParseDeleteToken(t) ==
    \E ptr \in theirTokens :
        /\ pc[t] = "parsing"
        /\ theirTokens' = theirTokens \ {ptr}
        /\ gram' = [gram EXCEPT !.heap = @ \ {ptr}]
        /\ UNCHANGED <<pc, mutex, thr>>
        /\ UNCHANGED otherVarsGram

\* an exception leaves the try block: a parse error, an invalid literal or
\* the TableParseError of a failed parse
ParseThrow(t) ==
    /\ pc[t] = "parsing"
    /\ thr' = [thr EXCEPT ![t].error = TRUE, ![t].message = "what"]
    /\ pc' = [pc EXCEPT ![t] = "afterTry"]
    /\ UNCHANGED <<mutex, theirTokens, gram>>
    /\ UNCHANGED otherVarsGram

\* the parse succeeds at the end of the input; the result node is copied
ParseAccept(t) ==
    /\ pc[t] = "parsing"
    /\ gram.pos = Len(thr[gram.strpOf].command)
    /\ pc' = [pc EXCEPT ![t] = "afterTry"]
    /\ UNCHANGED <<mutex, theirTokens, gram, thr>>
    /\ UNCHANGED otherVarsGram

ParseCleanup(t) ==
    /\ pc[t] = "afterTry"
    /\ LET d == deleteTokenStorage(gram, theirTokens)
       IN  /\ gram' = d.gram
           /\ theirTokens' = d.tokens
    /\ pc' = [pc EXCEPT ![t] = "cleaned"]
    /\ UNCHANGED <<mutex, thr>>
    /\ UNCHANGED otherVarsGram

\* a variant in which the exception leaves parse with the mutex still held
ParseRethrowKeepsLock(t) ==
    /\ pc[t] = "cleaned"
    /\ thr[t].error
    /\ thr' = [thr EXCEPT
                 ![t].outcome = "error",
                 ![t].text = <<thr[t].message, newline, "Scanned so far: ",
                               before(thr[t].command, gram.pos)>>]
    /\ pc' = [pc EXCEPT ![t] = "done"]
    /\ UNCHANGED <<mutex, theirTokens, gram>>
    /\ UNCHANGED otherVarsGram

\* the caught exception is thrown again with the scanned text; unwinding
\* releases the lock guard
ParseRethrow(t) ==
    /\ pc[t] = "cleaned"
    /\ thr[t].error
    /\ thr' = [thr EXCEPT
                 ![t].outcome = "error",
                 ![t].text = <<thr[t].message, newline, "Scanned so far: ",
                               before(thr[t].command, gram.pos)>>]
    /\ mutex' = 0
    /\ pc' = [pc EXCEPT ![t] = "done"]
    /\ UNCHANGED <<theirTokens, gram>>
    /\ UNCHANGED otherVarsGram

ParseReturn(t) ==
    /\ pc[t] = "cleaned"
    /\ ~thr[t].error
    /\ thr' = [thr EXCEPT ![t].outcome = "node"]
    /\ mutex' = 0
    /\ pc' = [pc EXCEPT ![t] = "done"]
    /\ UNCHANGED <<theirTokens, gram>>
    /\ UNCHANGED otherVarsGram

(***************************************************************************)
(* The bucket as a state machine: the operations a column applies to it.   *)
(* res holds the outcome of the last split, write/read or get; the bucket  *)
(* these act on stays in bkt.                                              *)
(***************************************************************************)
otherVarsBucket == <<view, pc, mutex, theirTokens, gram, thr, root, ref, file, ios, arrays, node, aio, wide>>

Idle == [op |-> "idle"]

\* every column starts with a value at row 0 of the bucket: split indexes
\* the last entry of every column and the entry before the split row
startsAtRow0(b) ==
    \A i \in Cols : indexUsed(b, i) > 0 /\ b.rowIndex[i][1] = Rn(0)

\* AlwaysAssert of insertData, which addData reaches after it has counted the
\* new index entry: a value is stored only if index and data still fit
bucketFits(b) == dataLeng(b) + b.indexLeng <= BucketSize

AddData ==
    \E colnr \in Cols : \E rownr \in Rows :
    \E index \in 0..indexUsed(bkt, colnr) : \E d \in Values(colnr) :
        /\ res = Idle
        /\ addDataPre(bkt, colnr, rownr, index)
        /\ canAddData(bkt, Len(d))
        /\ bkt' = addData(bkt, colnr, rownr, index, d)
        /\ res' = Idle
        /\ UNCHANGED otherVarsBucket

ReplaceData ==
    \E colnr \in Cols : \E index \in 0..(indexUsed(bkt, colnr) - 1) :
    \E d \in Values(colnr) :
        /\ res = Idle
        /\ canReplaceData(bkt, Len(d),
             getLength(FixedLength[colnr], bkt.data, bkt.offIndex[colnr][index + 1]))
        /\ bkt' = replaceData(bkt, colnr, index, d)
        /\ res' = Idle
        /\ UNCHANGED otherVarsBucket

ShiftLeft ==
    \E colnr \in Cols : \E index \in 0..(indexUsed(bkt, colnr) - 1) :
    \E nr \in 1..(indexUsed(bkt, colnr) - index) :
        /\ res = Idle
        /\ bkt' = shiftLeft(bkt, colnr, index, nr)
        /\ res' = Idle
        /\ UNCHANGED otherVarsBucket

\* write into bucket storage followed by read into a fresh bucket
WriteRead ==
    /\ res = Idle
    /\ LET storage == write(bkt)
       IN  /\ Len(storage) <= BucketSize
           /\ res' = [op |-> "read", use32 |-> readUse32(storage),
                      fresh |-> read(storage)]
    /\ UNCHANGED <<bkt, otherVarsBucket>>

\* split copies the values into two new buckets with addData; the assert of
\* insertData fails the split when a half outgrows the bucket size
Split ==
    \E tryLast \in BOOLEAN : \E colnr \in Cols : \E rownr \in Rows :
    \E lengToAdd \in {Len(d) : d \in Values(colnr)} :
        /\ res = Idle
        /\ startsAtRow0(bkt)
        /\ LET s == split(bkt, tryLast, colnr, rownr, lengToAdd)
           IN  res' = IF bucketFits(s.left) /\ bucketFits(s.right)
                      THEN [op |-> "split", simple |-> s.simple, left |-> s.left,
                            right |-> s.right, duplicated |-> s.duplicated,
                            splitRownr |-> s.splitRownr]
                      ELSE [op |-> "splitError"]
        /\ UNCHANGED <<bkt, otherVarsBucket>>

\* outcomes of indexing the blocks at inx - 1 when inx is 0: an index error
\* where the blocks check their index, otherwise a stray value or a fault
GetUBOutcomes == {"indexError", "garbage", "crash"}

Get ==
    \E colnr \in Cols : \E rownr \in Rows :
        /\ res = Idle
        /\ IF intervalDefined(bkt, colnr, rownr)
           THEN res' = [op |-> "get", colnr |-> colnr, rownr |-> rownr,
                        value |-> get(bkt, colnr, getOffset(bkt, colnr, rownr))]
           ELSE \E o \in GetUBOutcomes :
                    res' = [op |-> "getUB", colnr |-> colnr, rownr |-> rownr,
                            result |-> o]
        /\ UNCHANGED <<bkt, otherVarsBucket>>

\* replaceData as the last operation on the bucket; res keeps the bucket
\* before it and the arguments
ReplaceDataLast ==
    \E colnr \in Cols : \E index \in 0..(indexUsed(bkt, colnr) - 1) :
    \E d \in Values(colnr) :
        /\ res = Idle
        /\ canReplaceData(bkt, Len(d),
             getLength(FixedLength[colnr], bkt.data, bkt.offIndex[colnr][index + 1]))
        /\ bkt' = replaceData(bkt, colnr, index, d)
        /\ res' = [op |-> "replace", colnr |-> colnr, index |-> index,
                   value |-> d, old |-> bkt]
        /\ UNCHANGED otherVarsBucket

\* addData as the last operation on the bucket; res keeps the bucket before
\* it and the arguments
AddDataLast ==
    \E colnr \in Cols : \E rownr \in Rows :
    \E index \in 0..indexUsed(bkt, colnr) : \E d \in Values(colnr) :
        /\ res = Idle
        /\ addDataPre(bkt, colnr, rownr, index)
        /\ canAddData(bkt, Len(d))
        /\ bkt' = addData(bkt, colnr, rownr, index, d)
        /\ res' = [op |-> "add", colnr |-> colnr, rownr |-> rownr,
                   index |-> index, value |-> d, old |-> bkt]
        /\ UNCHANGED otherVarsBucket

\* row numbers at the edge of the 32-bit range
NearRows == {<<0, MAXROWNR32 - 1>>, <<0, MAXROWNR32>>}

\* addData with row numbers at the edge of the 32-bit range
AddDataNear ==
    \E colnr \in Cols : \E rownr \in NearRows :
    \E index \in 0..indexUsed(bkt, colnr) : \E d \in Values(colnr) :
        /\ res = Idle
        /\ addDataPre(bkt, colnr, rownr, index)
        /\ canAddData(bkt, Len(d))
        /\ bkt' = addData(bkt, colnr, rownr, index, d)
        /\ res' = Idle
        /\ UNCHANGED otherVarsBucket

(***************************************************************************)
(* Reference tables over a root table: construction from a row vector or   *)
(* a mask, reading through the view, row and column mutation.  root is the *)
(* root table (its row count and its column names; its data is the         *)
(* bucket), ref the reference table under study.                           *)
(***************************************************************************)
\* the integer column X of the root table, row by row
XValues == <<1, 1, 1, 2, 2>>

RootNrow == Len(XValues)

MaxViewRows == 3

MaxSubRows == 2

\* the row vectors of at most m elements a caller hands to a table of n
\* rows; n itself is a row number beyond the table
RowVectors(n, m) == UNION {[1..k -> 0..n] : k \in 0..m}

\* the masks a caller hands to a table of n rows
Masks(n) == UNION {[1..k -> BOOLEAN] : k \in 0..(n + 1)}

\* the name map of a view made from a plain table: every column under its
\* own name
ownNames(cols) == {<<c, c>> : c \in cols}

NoRef ==
    [kind |-> "none", table |-> RefTable(TRUE, 0), desc |-> {}, nameMap |-> {},
     how |-> "none", onView |-> FALSE, given |-> <<>>, parentRows |-> <<>>,
     changed |-> FALSE]

otherVarsRef == <<bkt, view, pc, mutex, theirTokens, gram, thr, file, ios, arrays, node, aio, wide>>

otherVarsScenario == <<view, pc, mutex, theirTokens, gram, thr, file, ios, arrays, node, aio, wide>>

InitRef ==
    /\ root = [nrow |-> RootNrow, cols |-> {"X", "Y"}, stored |-> 0, put |-> FALSE,
               writable |-> TRUE]
    /\ ref = NoRef

\* a variant that takes a vector with equal neighbours for ordered
adjustRownrsNotDecreasing(t, nr, rowStorage, determineOrder) ==
    LET rownrs == [i \in 1..nr |-> t.rowStorage[rowStorage[i] + 1]]
    IN  [rowStorage |-> rownrs,
         rowOrder |-> IF determineOrder
                      THEN \A i \in 2..nr : ~(rownrs[i] < rownrs[i - 1])
                      ELSE TRUE]

\* RefTable::adjustRownrs of the view t: the first nr elements of the vector
\* are replaced by the root rows they stand for
adjustRownrs(t, nr, rowStorage, determineOrder) ==
    LET rownrs == [i \in 1..nr |-> t.rowStorage[rowStorage[i] + 1]]
    IN  [rowStorage |-> rownrs,
         rowOrder |-> IF determineOrder
                      THEN \A i \in 2..nr : ~(rownrs[i] <= rownrs[i - 1])
                      ELSE TRUE]

\* BaseTable::adjustRownrs of a plain table: its rows are root rows already
rootAdjustRownrs(nr, rowStorage, determineOrder) ==
    LET rownrs == SubSeq(rowStorage, 1, nr)
    IN  [rowStorage |-> rownrs,
         rowOrder |-> IF determineOrder
                      THEN \A i \in 2..nr : ~(rownrs[i] <= rownrs[i - 1])
                      ELSE TRUE]

\* btp->nrow() and btp->adjustRownrs of the table a view is made from
parentNrow(onView) == IF onView THEN ref.table.nrrow ELSE root.nrow

parentAdjust(onView, nr, rowStorage, determineOrder) ==
    IF onView THEN adjustRownrs(ref.table, nr, rowStorage, determineOrder)
    ELSE rootAdjustRownrs(nr, rowStorage, determineOrder)

\* setup: the name map and the description of the new view
parentNameMap(onView) == IF onView THEN ref.nameMap ELSE ownNames(root.cols)

parentDesc(onView) == IF onView THEN ref.desc ELSE root.cols

parentRowNumbers(onView) ==
    IF onView THEN SubSeq(ref.table.rowStorage, 1, ref.table.nrrow) ELSE <<>>

canMakeView(onView) ==
    IF onView THEN ref.kind = "view" /\ ~ref.onView ELSE ref.kind = "none"

\* the indices at which a mask is set, below nr, in ascending order
RECURSIVE maskRows(_, _, _)
maskRows(mask, i, nr) ==
    IF i >= nr THEN <<>>
    ELSE (IF mask[i + 1] THEN <<i>> ELSE <<>>) \o maskRows(mask, i + 1, nr)

\* RefTable (BaseTable*, const Vector<rownr_t>&)
ViewFromRows(onView) ==
    \E rownrs \in RowVectors(parentNrow(onView),
                              IF onView THEN MaxSubRows ELSE MaxViewRows) :
        /\ res = Idle
        /\ canMakeView(onView)
        /\ ref' = IF \E i \in 1..Len(rownrs) : rownrs[i] >= parentNrow(onView)
                  THEN [NoRef EXCEPT !.kind = "indexError", !.how = "rows",
                                     !.onView = onView, !.given = rownrs]
                  ELSE LET adj == parentAdjust(onView, Len(rownrs), rownrs, TRUE)
                       IN  [kind |-> "view",
                            table |-> [rowStorage |-> adj.rowStorage,
                                       nrrow |-> Len(rownrs),
                                       rowOrd |-> adj.rowOrder],
                            desc |-> parentDesc(onView),
                            nameMap |-> parentNameMap(onView),
                            how |-> "rows", onView |-> onView, given |-> rownrs,
                            parentRows |-> parentRowNumbers(onView),
                       changed |-> TRUE]
        /\ UNCHANGED <<res, root>>
        /\ UNCHANGED otherVarsRef

\* RefTable (BaseTable*, const Vector<Bool>&)
ViewFromMask(onView) ==
    \E mask \in Masks(parentNrow(onView)) :
        /\ res = Idle
        /\ canMakeView(onView)
        /\ LET nr == IF Len(mask) < parentNrow(onView) THEN Len(mask)
                     ELSE parentNrow(onView)
               added == maskRows(mask, 0, nr)
               adj == parentAdjust(onView, Len(added), added, TRUE)
           IN  ref' = [kind |-> "view",
                       table |-> [rowStorage |-> adj.rowStorage,
                                  nrrow |-> Len(added),
                                  rowOrd |-> adj.rowOrder],
                       desc |-> parentDesc(onView),
                       nameMap |-> parentNameMap(onView),
                       how |-> "mask", onView |-> onView, given |-> added,
                       parentRows |-> parentRowNumbers(onView),
                       changed |-> TRUE]
        /\ UNCHANGED <<res, root>>
        /\ UNCHANGED otherVarsRef

\* adjustRownrs called on the view with a vector of its row numbers, the
\* caller saying whether the order is to be determined
AdjustRownrs ==
    \E determineOrder \in BOOLEAN :
    \E rownrs \in RowVectors(ref.table.nrrow, MaxSubRows) :
        /\ res = Idle
        /\ ref.kind = "view"
        /\ ~ref.onView
        /\ \A i \in 1..Len(rownrs) : rownrs[i] < ref.table.nrrow
        /\ LET adj == adjustRownrs(ref.table, Len(rownrs), rownrs, determineOrder)
           IN  res' = [op |-> "adjust", determineOrder |-> determineOrder,
                       given |-> rownrs, rowStorage |-> adj.rowStorage,
                       rowOrder |-> adj.rowOrder]
        /\ UNCHANGED <<ref, root>>
        /\ UNCHANGED otherVarsRef

\* the bucket column that holds X, and a value of X as its payload
XColumn == 1

XPayload(v) == <<v>>

\* the put of an incremental column on a bucket of nrow rows: nothing when
\* the row has the value already; a run of one row gets its value replaced;
\* otherwise the value is added as a new run at the row, and the old value
\* is added again at the next row when the old run went on behind the row
putValue(b, colnr, rownr, nrow, d) ==
    LET g == getInterval(b, colnr, rownr, nrow)
        inx == IF g.start = rownr THEN g.index ELSE g.index - 1
        old == get(b, colnr, g.offset)
    IN  IF old = d THEN b
        ELSE IF g.start = rownr /\ g.end = rownr
             THEN replaceData(b, colnr, inx, d)
        ELSE IF g.start = rownr
             THEN addData(b, colnr, rownr, inx, d)
        ELSE IF g.end = rownr
             THEN addData(b, colnr, rownr, inx + 1, d)
        ELSE addData(addData(b, colnr, rownr, inx + 1, d),
                     colnr, RowInc(rownr), inx + 2, old)

\* the rows of X are stored one after the other: a row whose value differs
\* from the row before starts a run
StoreX ==
    /\ res = Idle
    /\ root.stored < Len(XValues)
    /\ bkt' = IF root.stored = 0
              THEN addData(bkt, XColumn, Rn(0), 0, XPayload(XValues[1]))
              ELSE putValue(bkt, XColumn, Rn(root.stored), Rn(root.stored + 1),
                            XPayload(XValues[root.stored + 1]))
    /\ root' = [root EXCEPT !.stored = @ + 1]
    /\ UNCHANGED <<res, ref>>
    /\ UNCHANGED otherVarsScenario

\* put (X, 4, 3)
PutX ==
    /\ res = Idle
    /\ root.stored = Len(XValues)
    /\ ~root.put
    /\ bkt' = putValue(bkt, XColumn, Rn(4), Rn(root.nrow), XPayload(3))
    /\ root' = [root EXCEPT !.put = TRUE]
    /\ UNCHANGED <<res, ref>>
    /\ UNCHANGED otherVarsScenario

\* a variant that takes the row numbers of the view for root row numbers
rootRownrSame(t, rownrs) == rownrs

\* RefTable::rootRownr
rootRownr(t, rownrs) == [i \in 1..Len(rownrs) |-> t.rowStorage[rownrs[i] + 1]]

\* get of column X through the view: the row is mapped to its root row and
\* the root column is read there
RefGet ==
    \E rownr \in 0..(ref.table.nrrow - 1) :
        /\ res = Idle
        /\ ref.kind = "view"
        /\ LET rootRow == rootRownr(ref.table, <<rownr>>)[1]
           IN  /\ rootRow < root.stored
               /\ res' = [op |-> "refget", rownr |-> rownr, rootRow |-> rootRow,
                          value |-> get(bkt, XColumn,
                                        getOffset(bkt, XColumn, Rn(rootRow)))]
        /\ UNCHANGED <<bkt, ref, root>>
        /\ UNCHANGED otherVarsScenario

\* std::numeric_limits<uInt>::max() as a row number
uIntMax == <<1, MAXROWNR32>>

\* uInt(v): the low 32 bits of a row number
toUInt(r) == <<r[1] % 2, r[2]>>

NoFile ==
    [version |-> 0, nameMap |-> {}, names |-> {}, rootNrow |-> Rn(0),
     rowOrd |-> TRUE, nrrow |-> Rn(0), rows |-> <<>>, header |-> 0, puts |-> <<>>]

otherVarsFile == <<bkt, view, pc, mutex, theirTokens, gram, thr, ios, arrays, node, aio, wide>>

InitFile == file = NoFile

\* the most row numbers one put or get call transfers: 1048576 in the code,
\* scaled here so that a row list of the model takes more than one call
ChunkRows == 2

\* a variant that writes the old version whatever the row numbers are
refVersionAlways2(t, rootNrow) == 2

\* "Write old version if all row numbers fit in 32 bits"
refVersion(t, rootNrow) ==
    IF /\ RowLess(Rn(t.nrrow), uIntMax)
       /\ RowLess(rootNrow, uIntMax)
       /\ \A i \in 1..Len(t.rowStorage) : RowLess(t.rowStorage[i], uIntMax)
    THEN 2 ELSE 3

\* the numbers of rows the calls of the transfer loop take in turn: done is
\* what has been transferred, nrrow the loop limit, nrrow_p the row count of
\* the table object
RECURSIVE transfers(_, _, _)
transfers(done, nrrow, nrrow_p) ==
    IF done >= nrrow THEN <<>>
    ELSE LET left == nrrow_p - done
             todo == IF left < ChunkRows THEN left ELSE ChunkRows
         IN  <<todo>> \o transfers(done + todo, nrrow, nrrow_p)

\* the elements the calls transfer, one after the other
RECURSIVE transferred(_, _, _)
transferred(rows, done, todos) ==
    IF todos = <<>> THEN <<>>
    ELSE SubSeq(rows, done + 1, done + Head(todos))
           \o transferred(rows, done + Head(todos), Tail(todos))

\* RefTable::writeRefTable: what is put into the file for the view t (row
\* numbers as rownr_t) over a root of rootNrow rows; version 2 holds the
\* numbers as uInt.  header is the row count of the table file's header.
writeRefTable(t, nameMap, desc, rootNrow) ==
    LET version == refVersion(t, rootNrow)
        put(v) == IF version = 2 THEN toUInt(v) ELSE v
        puts == transfers(0, t.nrrow, t.nrrow)
    IN  [version |-> version, nameMap |-> nameMap, names |-> desc,
         rootNrow |-> put(rootNrow), rowOrd |-> t.rowOrd,
         nrrow |-> put(Rn(t.nrrow)),
         rows |-> transferred([i \in 1..t.nrrow |-> put(t.rowStorage[i])], 0, puts),
         header |-> t.nrrow, puts |-> puts]

\* RefTable::makeDesc: the columns of the file that the root still has
makeDesc(rootDesc, nameMap, names) ==
    {name \in names : \E x \in nameMap : x[1] = name /\ x[2] \in rootDesc}

\* the row numbers read from the file f into a vector of f.nrrow elements
getRows(f) == transferred(f.rows, 0, transfers(0, f.nrrow[2], f.header))

\* a variant that also refuses a root with exactly as many rows as recorded
getRefNoSpare(f, nrow, rootDesc) ==
    IF f.version > 3 THEN [NoRef EXCEPT !.kind = "TableError"]
    ELSE IF RowLeq(nrow, f.rootNrow)
         THEN [NoRef EXCEPT !.kind = "TableInvOper"]
    ELSE LET desc == makeDesc(rootDesc, f.nameMap, f.names)
         IN  [NoRef EXCEPT !.kind = "view", !.how = "file",
                           !.table = [rowStorage |-> getRows(f),
                                      nrrow |-> f.header,
                                      rowOrd |-> f.rowOrd],
                           !.desc = desc,
                           !.nameMap = {x \in f.nameMap : x[1] \in desc}]

\* RefTable::getRef: the view read from the file f when the root reopened
\* has nrow rows and the columns rootDesc
getRef(f, nrow, rootDesc) ==
    IF f.version > 3 THEN [NoRef EXCEPT !.kind = "TableError"]
    ELSE IF RowLess(nrow, f.rootNrow)
         THEN [NoRef EXCEPT !.kind = "TableInvOper"]
    ELSE LET desc == makeDesc(rootDesc, f.nameMap, f.names)
         IN  [NoRef EXCEPT !.kind = "view", !.how = "file",
                           !.table = [rowStorage |-> getRows(f),
                                      nrrow |-> f.header,
                                      rowOrd |-> f.rowOrd],
                           !.desc = desc,
                           !.nameMap = {x \in f.nameMap : x[1] \in desc}]

\* the row numbers of a view of the model as rownr_t, and back
asRownrs(t) == [t EXCEPT !.rowStorage = [i \in 1..Len(t.rowStorage) |-> Rn(t.rowStorage[i])]]

asNumbers(v) ==
    [v EXCEPT !.table.rowStorage = [i \in 1..Len(v.table.rowStorage) |->
                                       v.table.rowStorage[i][2]]]

\* writeRefTable: the file is written when the view has changed
WriteRefTable ==
    /\ res = Idle
    /\ ref.kind = "view"
    /\ file' = IF ref.changed
               THEN writeRefTable(asRownrs(ref.table), ref.nameMap, ref.desc, Rn(root.nrow))
               ELSE file
    /\ ref' = [ref EXCEPT !.changed = FALSE]
    /\ UNCHANGED <<res, root>>
    /\ UNCHANGED otherVarsFile

\* the root table gets a row, or loses one, after the view was written
MaxRootNrow == RootNrow + 1

RootAddRow ==
    /\ res = Idle
    /\ file.version # 0
    /\ root.nrow < MaxRootNrow
    /\ root' = [root EXCEPT !.nrow = @ + 1]
    /\ UNCHANGED <<res, ref, file>>
    /\ UNCHANGED otherVarsFile

RootRemoveRow ==
    /\ res = Idle
    /\ file.version # 0
    /\ root.nrow > 0
    /\ root' = [root EXCEPT !.nrow = @ - 1]
    /\ UNCHANGED <<res, ref, file>>
    /\ UNCHANGED otherVarsFile

\* RefTable (AipsIO&, ...): the persisted view is loaded over the root as
\* it is now
GetRef ==
    /\ res = Idle
    /\ file.version # 0
    /\ ref' = asNumbers(getRef(file, Rn(root.nrow), root.cols))
    /\ res' = [op |-> "getRef", kind |-> ref'.kind]
    /\ UNCHANGED <<root, file>>
    /\ UNCHANGED otherVarsFile

(***************************************************************************)
(* A view over a root of more rows than 32 bits count, as it is written    *)
(* and loaded.  wide holds the view (its row numbers are rownr_t values)   *)
(* and the row count of its root.                                          *)
(***************************************************************************)
otherVarsWide == <<bkt, view, pc, mutex, theirTokens, gram, thr, root, ref, ios, arrays, node, aio>>

NoWide == [kind |-> "none", table |-> RefTable(TRUE, 0), rootNrow |-> Rn(0)]

InitWide == wide = NoWide

\* row numbers on both sides of the uInt range, and the root sizes
WideRows == {Rn(0), Rn(1), uIntMax, <<2, 1>>}

WideNrows == {Rn(2), <<2, 2>>}

MaxWideRows == ChunkRows + 1

\* RefTable (BaseTable*, const Vector<rownr_t>&) over a plain table
WideView ==
    \E nrow \in WideNrows :
    \E rownrs \in UNION {[1..k -> WideRows] : k \in 0..MaxWideRows} :
        /\ wide.kind = "none"
        /\ wide' = IF \E i \in 1..Len(rownrs) : ~RowLess(rownrs[i], nrow)
                   THEN [NoWide EXCEPT !.kind = "indexError"]
                   ELSE [kind |-> "view",
                         table |-> [rowStorage |-> rownrs, nrrow |-> Len(rownrs),
                                    rowOrd |-> \A i \in 2..Len(rownrs) :
                                                  ~RowLeq(rownrs[i], rownrs[i - 1])],
                         rootNrow |-> nrow]
        /\ UNCHANGED <<res, file>>
        /\ UNCHANGED otherVarsWide

\* writeRefTable of the new view (changed_p is set by the constructor)
WideWrite ==
    /\ wide.kind = "view"
    /\ file = NoFile
    /\ file' = writeRefTable(wide.table, ownNames(root.cols), root.cols, wide.rootNrow)
    /\ UNCHANGED <<res, wide>>
    /\ UNCHANGED otherVarsWide

\* RefTable (AipsIO&, ...): the file is loaded; res keeps the view read and
\* the numbers of rows the get calls took
WideGet ==
    /\ file # NoFile
    /\ res = Idle
    /\ res' = [op |-> "reload", view |-> getRef(file, wide.rootNrow, root.cols),
               gets |-> transfers(0, file.nrrow[2], file.header)]
    /\ UNCHANGED <<file, wide>>
    /\ UNCHANGED otherVarsWide

\* the column names a caller uses
ColNames == {"X", "Y", "Z"}

\* nameMap_p.at (name)
mapVal(nameMap, name) == (CHOOSE x \in nameMap : x[1] = name)[2]

\* RefTable::removeRow on the row vector: the rows behind rownr move one
\* place to the front, the vector keeps its length
removeRow(t, rownr) ==
    [t EXCEPT !.rowStorage = [i \in 1..Len(t.rowStorage) |->
                                 IF i - 1 >= rownr /\ i - 1 < t.nrrow - 1
                                 THEN t.rowStorage[i + 1]
                                 ELSE t.rowStorage[i]],
              !.nrrow = t.nrrow - 1]

\* a variant that hands every new column to the root
checkAddColumnToParent(desc, rootDesc, writable, name, addToParent) ==
    IF ~writable THEN "TableInvOper"
    ELSE IF name \in desc THEN "TableInvOper"
    ELSE IF name \in rootDesc THEN "False"
    ELSE "True"

\* RefTable::checkAddColumn: an exception, or whether the column is to be
\* added to the root as well
checkAddColumn(desc, rootDesc, writable, name, addToParent) ==
    IF ~writable THEN "TableInvOper"
    ELSE IF name \in desc THEN "TableInvOper"
    ELSE IF name \in rootDesc THEN "False"
    ELSE IF ~addToParent THEN "TableInvOper"
    ELSE "True"

\* what an operation on the view leaves in res: the operation, whether it
\* threw, the root as it was and the part of the view that the operation
\* has no business with
rowMutation(op, thrown) ==
    [op |-> op, thrown |-> thrown, root |-> root, desc |-> ref.desc,
     nameMap |-> ref.nameMap]

columnMutation(op, name, addToParent, thrown) ==
    [op |-> op, name |-> name, addToParent |-> addToParent, thrown |-> thrown,
     root |-> root, table |-> ref.table]

\* the root table is opened read-only
OpenReadOnly ==
    /\ res = Idle
    /\ ref.kind = "none"
    /\ root.writable
    /\ root' = [root EXCEPT !.writable = FALSE]
    /\ UNCHANGED <<res, ref, file>>
    /\ UNCHANGED otherVarsFile

\* the first row, the last row, or the row number behind the last
RemoveRow ==
    \E rownr \in {0, ref.table.nrrow - 1, ref.table.nrrow} \cap Nat :
        /\ ref.kind = "view"
        /\ res' = rowMutation("removeRow", rownr >= ref.table.nrrow)
        /\ ref' = IF rownr >= ref.table.nrrow THEN ref
                  ELSE [ref EXCEPT !.table = removeRow(ref.table, rownr),
                                   !.changed = TRUE]
        /\ UNCHANGED <<root, file>>
        /\ UNCHANGED otherVarsFile

RemoveAllRow ==
    /\ ref.kind = "view"
    /\ res' = rowMutation("removeAllRow", FALSE)
    /\ ref' = [ref EXCEPT !.table.nrrow = 0, !.changed = TRUE]
    /\ UNCHANGED <<root, file>>
    /\ UNCHANGED otherVarsFile

\* RefTable::removeColumn; checkRemoveColumn throws for a name that is not
\* a column of the view
RemoveColumn ==
    \E columnNames \in SUBSET ColNames :
        /\ ref.kind = "view"
        /\ res' = columnMutation("removeColumn", "", FALSE,
                                 ~(columnNames \subseteq ref.desc))
        /\ ref' = IF ~(columnNames \subseteq ref.desc) THEN ref
                  ELSE [ref EXCEPT !.desc = @ \ columnNames,
                                   !.nameMap = {x \in @ : x[1] \notin columnNames},
                                   !.changed = TRUE]
        /\ UNCHANGED <<root, file>>
        /\ UNCHANGED otherVarsFile

\* RefTable::renameColumn; TableDesc::renameColumn throws when the old name
\* is not a column or the new name is one already
RenameColumn ==
    \E newName \in ColNames, oldName \in ColNames :
        LET thrown == oldName \notin ref.desc \/ newName \in ref.desc
        IN  /\ ref.kind = "view"
            /\ res' = columnMutation("renameColumn", newName, FALSE, thrown)
            /\ ref' = IF thrown THEN ref
                      ELSE [ref EXCEPT
                              !.desc = (@ \ {oldName}) \cup {newName},
                              !.nameMap = {x \in @ : x[1] # oldName} \cup
                                          {<<newName, mapVal(@, oldName)>>},
                              !.changed = TRUE]
            /\ UNCHANGED <<root, file>>
            /\ UNCHANGED otherVarsFile

\* RefTable::addColumn (const ColumnDesc&, Bool addToParent)
AddColumn ==
    \E name \in ColNames, addToParent \in BOOLEAN :
        LET toParent == checkAddColumn(ref.desc, root.cols, root.writable,
                                       name, addToParent)
        IN  /\ ref.kind = "view"
            /\ res' = columnMutation("addColumn", name, addToParent,
                                     toParent = "TableInvOper")
            /\ root' = IF toParent = "True"
                       THEN [root EXCEPT !.cols = @ \cup {name}]
                       ELSE root
            /\ ref' = IF toParent = "TableInvOper" THEN ref
                      ELSE [ref EXCEPT !.desc = @ \cup {name},
                                       !.nameMap = @ \cup {<<name, name>>},
                                       !.changed = TRUE]
            /\ UNCHANGED file
            /\ UNCHANGED otherVarsFile

(***************************************************************************)
(* StIndArray: the cells of an indirect array column and the array file    *)
(* (StManArrayFile) that holds their shapes and data.  ios is the file:    *)
(* its length, its slots by file offset (reference count, shape, data      *)
(* type), and the slots given back; the values of the arrays are left out.  *)
(* arrays holds the StIndArray object of each cell: fileOffset_p,          *)
(* arrOffset_p, shape_p.                                                   *)
(***************************************************************************)
\* a cell and another cell, which may share its array
Cells == {1, 2}

MaxSlots == 1

\* an array is referred to by the cells at most
MaxRefCount == Cardinality(Cells)

\* the data types of the switch statements, and one they do not handle
KnownTypes == {"TpInt"}

DataTypes == KnownTypes \cup {"TpOther"}

Shapes == {<<1>>, <<2>>}

typeSize(dataType) == uIntSize

RECURSIVE product(_)
product(shape) == IF shape = <<>> THEN 1 ELSE Head(shape) * product(Tail(shape))

\* the file starts with its version and its length
fileHeader == uIntSize + rownrSize

\* the shape record of a slot: reference count, dimensionality, the axes
shapeLeng(shape) == uIntSize * (2 + Len(shape))

slotSize(shape, dataType) == shapeLeng(shape) + product(shape) * typeSize(dataType)

StManArrayFile == [leng |-> fileHeader, slots |-> <<>>, free |-> {}, corrupt |-> FALSE]

StIndArray(fileOffset) == [fileOffset |-> fileOffset, arrOffset |-> 0, shape |-> <<>>]

otherVarsInd == <<bkt, view, pc, mutex, theirTokens, gram, thr, root, ref, file, node, aio, wide>>

InitInd ==
    /\ ios = StManArrayFile
    /\ arrays = [c \in Cells |-> StIndArray(0)]

\* StManArrayFile::getRefCount, putRefCount: a slot whose count is put as
\* zero is given back to the file
getRefCount(f, offset) == f.slots[offset].refCount

putRefCount(f, refCount, offset) ==
    [f EXCEPT !.slots[offset].refCount = refCount,
              !.free = IF refCount = Rn(0) THEN @ \cup {offset} ELSE @ \ {offset}]

\* StManArrayFile::putShape: the shape record is written with a count of
\* one and room is made for the array, in a slot given back that has the
\* size or else at the end of the file
putShape(f, shape, dataType) ==
    LET size == slotSize(shape, dataType)
        fit == {o \in f.free : slotSize(f.slots[o].shape, f.slots[o].dataType) = size}
        offset == IF fit # {} THEN CHOOSE o \in fit : \A q \in fit : o <= q
                  ELSE f.leng
        slot == [refCount |-> Rn(1), shape |-> shape, dataType |-> dataType]
    IN  [ios |-> [f EXCEPT !.slots = (offset :> slot) @@ @,
                           !.free = @ \ {offset},
                           !.leng = IF fit # {} THEN @ ELSE @ + size],
         fileOffset |-> offset,
         arrOffset |-> shapeLeng(shape)]

\* the slot whose array starts at the file position, if there is one
slotsAt(f, pos) == {o \in DOMAIN f.slots : o + shapeLeng(f.slots[o].shape) = pos}

slotAt(f, pos) == CHOOSE o \in slotsAt(f, pos) : TRUE

canRead(f, pos, start, leng) ==
    /\ slotsAt(f, pos) # {}
    /\ start + leng <= product(f.slots[slotAt(f, pos)].shape)

\* StManArrayFile::get and put of leng values from the start-th value on:
\* the number of values read, and the file after the values were written
iosGet(f, pos, start, leng) == IF canRead(f, pos, start, leng) THEN leng ELSE 0

iosPut(f, pos, start, leng) ==
    IF canRead(f, pos, start, leng) THEN f ELSE [f EXCEPT !.corrupt = TRUE]

\* StManArrayFile::copyArray<T>
copyArray(f, to, from, nr) ==
    IF canRead(f, from, 0, nr) THEN iosPut(f, to, 0, nr)
    ELSE [f EXCEPT !.corrupt = TRUE]

\* what a member function gives: the file and the object after the call,
\* the value returned, the exception thrown and the calls made on the file
outcome(f, a, result, thrown, calls) ==
    [ios |-> f, self |-> a, result |-> result, thrown |-> thrown, calls |-> calls]

\* StIndArray::getShape
getShape(f, a) ==
    IF a.arrOffset = 0
    THEN outcome(f, [a EXCEPT !.arrOffset = shapeLeng(f.slots[a.fileOffset].shape),
                              !.shape = f.slots[a.fileOffset].shape],
                 <<>>, "none", <<"getShape">>)
    ELSE outcome(f, a, <<>>, "none", <<>>)

\* StIndArray::incrementRefCount; the count is a uInt
incrementRefCount(f, a) ==
    LET refCount == getRefCount(f, a.fileOffset)
        incr == IF refCount = uIntMax THEN Rn(0) ELSE RowInc(refCount)
    IN  outcome(putRefCount(f, incr, a.fileOffset), a, <<>>, "none",
                <<"getRefCount", "putRefCount">>)

\* a variant that reads the count and leaves it as it is
decrementRefCountKeeps(f, a) ==
    outcome(f, a, <<>>, "none", <<"getRefCount">>)

\* StIndArray::decrementRefCount
decrementRefCount(f, a) ==
    LET refCount == getRefCount(f, a.fileOffset)
        decr == IF refCount = Rn(0) THEN uIntMax ELSE RowDec(refCount)
    IN  outcome(putRefCount(f, decr, a.fileOffset), a, <<>>, "none",
                <<"getRefCount", "putRefCount">>)

\* a variant that stores the shape whether or not the cell has it already
setShapeAgain(f, a, dataType, shape) ==
    IF dataType \in KnownTypes
    THEN LET p == putShape(f, shape, dataType)
         IN  outcome(p.ios, [fileOffset |-> p.fileOffset,
                             arrOffset |-> p.arrOffset, shape |-> shape],
                     TRUE, "none", <<"putShape">>)
    ELSE outcome(f, [a EXCEPT !.shape = shape], TRUE, "none", <<>>)

\* StIndArray::setShape; the switch has no default
setShape(f, a, dataType, shape) ==
    IF a.arrOffset # 0 /\ a.shape = shape
    THEN outcome(f, a, FALSE, "none", <<>>)
    ELSE IF dataType \in KnownTypes
    THEN LET p == putShape(f, shape, dataType)
         IN  outcome(p.ios, [fileOffset |-> p.fileOffset,
                             arrOffset |-> p.arrOffset, shape |-> shape],
                     TRUE, "none", <<"putShape">>)
    ELSE outcome(f, [a EXCEPT !.shape = shape], TRUE, "none", <<>>)

\* StIndArray::copyData
copyDataInd(f, a, dataType, other) ==
    IF a.shape # other.shape
    THEN outcome(f, a, <<>>, "DataManInternalError", <<>>)
    ELSE IF dataType \in KnownTypes
    THEN outcome(copyArray(f, a.fileOffset + a.arrOffset,
                           other.fileOffset + other.arrOffset, product(a.shape)),
                 a, <<>>, "none", <<"copyArray">>)
    ELSE outcome(f, a, <<>>, "DataManInternalError", <<>>)

\* StIndArray::checkShape
checkShape(userArrayShape, tableArrayShape) == userArrayShape = tableArrayShape

\* StIndArray::getArrayV
getArrayV(f, a, arrShape, dtype) ==
    IF ~checkShape(arrShape, a.shape)
    THEN outcome(f, a, <<>>, "DataManInternalError", <<>>)
    ELSE IF dtype \in KnownTypes
    THEN outcome(f, a, iosGet(f, a.fileOffset + a.arrOffset, 0, product(a.shape)),
                 "none", <<"get">>)
    ELSE outcome(f, a, <<>>, "DataManInternalError", <<>>)

\* StIndArray::putArrayV
putArrayV(f, a, arrShape, dtype) ==
    IF ~checkShape(arrShape, a.shape)
    THEN outcome(f, a, <<>>, "DataManInternalError", <<>>)
    ELSE IF dtype \in KnownTypes
    THEN outcome(iosPut(f, a.fileOffset + a.arrOffset, 0, product(a.shape)),
                 a, <<>>, "none", <<"put">>)
    ELSE outcome(f, a, <<>>, "DataManInternalError", <<>>)

\* Slicer::inferShapeFromSource for a vector: a slice of one value at start
\* has to lie within the shape
Slicers == {[start |-> st, leng |-> 1] : st \in 0..1}

sliceFits(ns, shape) == Len(shape) = 1 /\ ns.start + ns.leng <= shape[1]

\* StIndArray::getSliceV with getSliceData
getSliceV(f, a, ns, arrShape, dtype) ==
    IF dtype \notin KnownTypes
    THEN outcome(f, a, <<>>, "DataManInternalError", <<>>)
    ELSE IF ~sliceFits(ns, a.shape)
    THEN outcome(f, a, <<>>, "ArraySlicerError", <<>>)
    ELSE IF ~checkShape(arrShape, <<ns.leng>>)
    THEN outcome(f, a, <<>>, "DataManInternalError", <<>>)
    ELSE outcome(f, a, iosGet(f, a.fileOffset + a.arrOffset, ns.start, ns.leng),
                 "none", <<"get">>)

\* StIndArray::putSliceV with putSliceData
putSliceV(f, a, ns, arrShape, dtype) ==
    IF dtype \notin KnownTypes
    THEN outcome(f, a, <<>>, "DataManInternalError", <<>>)
    ELSE IF ~sliceFits(ns, a.shape)
    THEN outcome(f, a, <<>>, "ArraySlicerError", <<>>)
    ELSE IF ~checkShape(arrShape, <<ns.leng>>)
    THEN outcome(f, a, <<>>, "DataManInternalError", <<>>)
    ELSE outcome(iosPut(f, a.fileOffset + a.arrOffset, ns.start, ns.leng),
                 a, <<>>, "none", <<"put">>)

\* the call is made on the cell: the file and the object become what the
\* call gives, and res tells what was called with which data type, the
\* reference count seen before the call, whether the cell had a shape and
\* had the shape given, what came of the call, and whether the object and
\* the file with its length are as they were.  Calls that write or read
\* outside an array are not made.
called(op, cell, dataType, shape, seen, out) ==
    /\ ~out.ios.corrupt
    /\ ios' = out.ios
    /\ arrays' = [arrays EXCEPT ![cell] = out.self]
    /\ res' = [op |-> op, cell |-> cell, dataType |-> dataType, seen |-> seen,
               defined |-> arrays[cell].arrOffset # 0,
               same |-> arrays[cell].shape = shape,
               kept |-> out.self = arrays[cell] /\ out.ios = ios,
               result |-> out.result, thrown |-> out.thrown, calls |-> out.calls]
    /\ UNCHANGED otherVarsInd

\* StIndArray (Int64 fileOffset): the object of a cell is made for an array
\* that is in the file
Attach ==
    \E cell \in Cells, fileOffset \in DOMAIN ios.slots :
        called("StIndArray", cell, "", <<>>, <<>>,
               outcome(ios, StIndArray(fileOffset), <<>>, "none", <<>>))

GetShape ==
    \E cell \in Cells :
        /\ arrays[cell].fileOffset # 0
        /\ called("getShape", cell, "", <<>>, <<>>, getShape(ios, arrays[cell]))

IncrementRefCount ==
    \E cell \in Cells :
        /\ arrays[cell].fileOffset # 0
        /\ RowLess(getRefCount(ios, arrays[cell].fileOffset), Rn(MaxRefCount))
        /\ called("incrementRefCount", cell, "", <<>>,
                  getRefCount(ios, arrays[cell].fileOffset),
                  incrementRefCount(ios, arrays[cell]))

DecrementRefCount ==
    \E cell \in Cells :
        /\ arrays[cell].fileOffset # 0
        /\ RowLess(Rn(0), getRefCount(ios, arrays[cell].fileOffset))
        /\ called("decrementRefCount", cell, "", <<>>,
                  getRefCount(ios, arrays[cell].fileOffset),
                  decrementRefCount(ios, arrays[cell]))

SetShape ==
    \E cell \in Cells, dataType \in DataTypes, shape \in Shapes :
        LET out == setShape(ios, arrays[cell], dataType, shape)
        IN  /\ Cardinality(DOMAIN out.ios.slots) <= MaxSlots
            /\ called("setShape", cell, dataType, shape, <<>>, out)

CopyDataInd ==
    \E cell \in Cells, other \in Cells, dataType \in DataTypes :
        called("copyData", cell, dataType, arrays[other].shape, <<>>,
               copyDataInd(ios, arrays[cell], dataType, arrays[other]))

GetArrayV ==
    \E cell \in Cells, dtype \in DataTypes, shape \in Shapes :
        called("getArrayV", cell, dtype, shape, <<>>,
               getArrayV(ios, arrays[cell], shape, dtype))

PutArrayV ==
    \E cell \in Cells, dtype \in DataTypes, shape \in Shapes :
        called("putArrayV", cell, dtype, shape, <<>>,
               putArrayV(ios, arrays[cell], shape, dtype))

GetSliceV ==
    \E cell \in Cells, dtype \in DataTypes, ns \in Slicers, shape \in Shapes :
        called("getSliceV", cell, dtype, shape, <<>>,
               getSliceV(ios, arrays[cell], ns, shape, dtype))

PutSliceV ==
    \E cell \in Cells, dtype \in DataTypes, ns \in Slicers, shape \in Shapes :
        called("putSliceV", cell, dtype, shape, <<>>,
               putSliceV(ios, arrays[cell], ns, shape, dtype))

(***************************************************************************)
(* TaQL parse tree (tables/TaQL/TaQLNodeDer.cc).  A node is its kind, its  *)
(* scalar members in the order save writes them, its child nodes, and, for *)
(* the kinds derived from TaQLQueryNodeRep, the flags <<itsBrackets,       *)
(* itsNoExecute, itsFromExecute>>.  aio is the AipsIO stream a node was    *)
(* saved to: the sequence of values written.                               *)
(***************************************************************************)
otherVarsNode == <<bkt, view, pc, mutex, theirTokens, gram, thr, root, ref, file, ios, arrays, wide>>

NullNode == [kind |-> "null", fields |-> <<>>, children |-> <<>>, flags |-> <<>>]

isValid(n) == n.kind # "null"

InitNode ==
    /\ node = NullNode
    /\ aio = <<>>

\* per kind: the number of scalar members, the child members ("n" a
\* TaQLNode, "m" a TaQLMultiNode), whether the class derives from
\* TaQLQueryNodeRep, whether save calls saveSuper and restore restoreSuper
member(nf, slots, query, saves, restores) ==
    [fields |-> nf, slots |-> slots, query |-> query,
     saveSuper |-> saves, restoreSuper |-> restores]

Layout ==
    [Regex   |-> member(5, <<>>, FALSE, FALSE, FALSE),
     Unary   |-> member(1, <<"n">>, FALSE, FALSE, FALSE),
     Binary  |-> member(1, <<"n", "n">>, FALSE, FALSE, FALSE),
     Func    |-> member(1, <<"m">>, FALSE, FALSE, FALSE),
     Range   |-> member(3, <<"n", "n">>, FALSE, FALSE, FALSE),
     Index   |-> member(0, <<"n", "n", "n">>, FALSE, FALSE, FALSE),
     Join    |-> member(0, <<"m", "n">>, FALSE, FALSE, FALSE),
     KeyCol  |-> member(2, <<>>, FALSE, FALSE, FALSE),
     Table   |-> member(1, <<"n">>, FALSE, FALSE, FALSE),
     Col     |-> member(3, <<"n">>, FALSE, FALSE, FALSE),
     Columns |-> member(1, <<"m">>, FALSE, FALSE, FALSE),
     Groupby |-> member(1, <<"m">>, FALSE, FALSE, FALSE),
     SortKey |-> member(1, <<"n">>, FALSE, FALSE, FALSE),
     Sort    |-> member(2, <<"m">>, FALSE, FALSE, FALSE),
     LimitOff |-> member(0, <<"n", "n">>, FALSE, FALSE, FALSE),
     UpdExpr |-> member(2, <<"m", "m", "n">>, FALSE, FALSE, FALSE),
     Select  |-> member(0, <<"n", "m", "m", "m", "n", "n", "n", "n", "n", "n", "m">>,
                        TRUE, TRUE, TRUE),
     Count   |-> member(0, <<"m", "n", "m", "n">>, TRUE, TRUE, TRUE),
     Update  |-> member(0, <<"m", "m", "m", "m", "n", "n", "n">>, FALSE, FALSE, FALSE),
     Insert  |-> member(0, <<"m", "m", "m", "n", "n">>, FALSE, FALSE, FALSE),
     Delete  |-> member(0, <<"m", "m", "n", "n", "n">>, FALSE, FALSE, FALSE),
     Calc    |-> member(0, <<"m", "m", "n", "n", "n", "n">>, FALSE, FALSE, FALSE),
     CreTab  |-> member(0, <<"m", "n", "m", "m", "n", "m">>, TRUE, TRUE, TRUE),
     ColSpec |-> member(3, <<"m">>, FALSE, FALSE, FALSE),
     Unit    |-> member(1, <<"n">>, FALSE, FALSE, FALSE),
     AltTab  |-> member(0, <<"m", "n", "m", "m">>, TRUE, FALSE, FALSE),
     AddCol  |-> member(0, <<"m", "m">>, FALSE, FALSE, FALSE),
     RenDrop |-> member(1, <<"m">>, FALSE, FALSE, FALSE),
     SetKey  |-> member(0, <<"m">>, FALSE, FALSE, FALSE),
     AddRow  |-> member(0, <<"n">>, FALSE, FALSE, FALSE),
     ConcTab |-> member(1, <<"m", "m">>, TRUE, FALSE, FALSE),
     Show    |-> member(0, <<"m">>, FALSE, FALSE, FALSE),
     CopyCol |-> member(0, <<"m", "m">>, FALSE, FALSE, FALSE),
     DropTab |-> member(0, <<"m", "m">>, FALSE, FALSE, FALSE)]

NodeKinds == DOMAIN Layout

QueryKinds == {k \in NodeKinds : Layout[k].query}

\* the kinds whose third scalar member is a data type string
DtypeKinds == {"Col", "ColSpec"}

NoFlags == <<FALSE, FALSE, FALSE>>

\* the data type strings: a synonym is replaced by the standard name
Dtypes == {"", "INT", "I4"}

checkDataType(dtype) == IF dtype = "INT" THEN "I4" ELSE dtype

\* the constructors
TaQLConstNodeRep(type, isTableName, unit, value, svalue) ==
    [kind |-> "Const", fields |-> <<type, isTableName, unit, value, svalue>>,
     children |-> <<>>, flags |-> <<>>]

ConstBool(value) == TaQLConstNodeRep("CTBool", FALSE, "", value, "")

ConstInt(value) == TaQLConstNodeRep("CTInt", FALSE, "", value, "")

ConstReal(value, unit) == TaQLConstNodeRep("CTReal", FALSE, unit, value, "")

ConstString(value, isTableName) == TaQLConstNodeRep("CTString", isTableName, "", 0, value)

ConstSubTable(value, subTableName) == TaQLConstNodeRep("CTInt", TRUE, "", value, subTableName)

\* TaQLMultiNodeRep (prefix, postfix, isSetOrArray), setSeparator (sep),
\* setSeparator (incr, sep2) and add for each node
TaQLMultiNodeRep(isSetOrArray, prefix, postfix, sep, sep2, incr, nodes) ==
    [kind |-> "Multi", fields |-> <<isSetOrArray, prefix, postfix, sep, sep2, incr>>,
     children |-> nodes, flags |-> <<>>]

TaQLGivingNodeRepName(name, type) ==
    [kind |-> "Giving", fields |-> <<name>>, children |-> <<NullNode, type>>,
     flags |-> <<>>]

TaQLGivingNodeRepExpr(exprlist) ==
    [kind |-> "Giving", fields |-> <<"">>, children |-> <<exprlist, NullNode>>,
     flags |-> <<>>]

TaQLRecFldNodeRepValues(name, values, dtype) ==
    [kind |-> "RecFld", fields |-> <<name, "", checkDataType(dtype)>>,
     children |-> <<values>>, flags |-> <<>>]

TaQLRecFldNodeRepFrom(name, fromName, dtype) ==
    [kind |-> "RecFld", fields |-> <<name, fromName, checkDataType(dtype)>>,
     children |-> <<NullNode>>, flags |-> <<>>]

\* the constructor of the other kinds
construct(kind, fields, children) ==
    [kind |-> kind,
     fields |-> IF kind \in DtypeKinds
                THEN [fields EXCEPT ![3] = checkDataType(@)] ELSE fields,
     children |-> children,
     flags |-> IF Layout[kind].query THEN NoFlags ELSE <<>>]

RECURSIVE saveNode(_)
RECURSIVE save(_)
\* TaQLNode::saveNode: the node type, then the node's own save
saveNode(n) ==
    IF ~isValid(n) THEN <<"null">> ELSE <<n.kind>> \o save(n)

saveNodes(nodes) == Flatten([i \in 1..Len(nodes) |-> saveNode(nodes[i])])

saveSuper(n) == n.flags

saveConst(n) ==
    LET type == n.fields[1]
        isTableName == n.fields[2]
    IN  SubSeq(n.fields, 1, 3) \o
        (CASE type = "CTInt" ->
                  <<n.fields[4]>> \o (IF isTableName THEN <<n.fields[5]>> ELSE <<>>)
           [] type = "CTString" -> <<n.fields[5]>>
           [] OTHER -> <<n.fields[4]>>)

save(n) ==
    CASE n.kind = "Const" -> saveConst(n)
      [] n.kind = "Multi" -> n.fields \o <<Len(n.children)>> \o saveNodes(n.children)
      [] n.kind = "Giving" ->
             saveNode(n.children[1]) \o
             (IF ~isValid(n.children[1])
              THEN n.fields \o saveNode(n.children[2]) ELSE <<>>)
      [] OTHER ->
             n.fields \o saveNodes(n.children) \o
             (IF n.kind \in NodeKinds /\ Layout[n.kind].saveSuper
              THEN saveSuper(n) ELSE <<>>)

\* what was read and what is left of the stream
restored(n, rest) == [node |-> n, rest |-> rest]

RECURSIVE restoreNode(_)
RECURSIVE restore(_, _)
RECURSIVE restoreNodes(_, _, _)
\* TaQLNode::restoreNode: the node type, then the restore of that class
restoreNode(s) ==
    IF Head(s) = "null" THEN restored(NullNode, Tail(s))
    ELSE restore(Head(s), Tail(s))

\* count nodes read one after the other
restoreNodes(s, count, nodes) ==
    IF count = 0 THEN restored(nodes, s)
    ELSE LET r == restoreNode(s)
         IN  restoreNodes(r.rest, count - 1, Append(nodes, r.node))

restoreSuper(n, s) == restored([n EXCEPT !.flags = SubSeq(s, 1, 3)], SubSeq(s, 4, Len(s)))

restoreConst(s) ==
    LET type == s[1]
        isTableName == s[2]
        unit == s[3]
    IN  CASE type = "CTBool" -> restored(ConstBool(s[4]), SubSeq(s, 5, Len(s)))
          [] type = "CTInt" ->
                 IF isTableName
                 THEN restored(ConstSubTable(s[4], s[5]), SubSeq(s, 6, Len(s)))
                 ELSE restored(ConstInt(s[4]), SubSeq(s, 5, Len(s)))
          [] type = "CTReal" -> restored(ConstReal(s[4], unit), SubSeq(s, 5, Len(s)))
          [] type = "CTString" ->
                 restored(ConstString(s[4], isTableName), SubSeq(s, 5, Len(s)))

restoreMulti(s) ==
    LET size == s[7]
        r == restoreNodes(SubSeq(s, 8, Len(s)), size, <<>>)
    IN  restored(TaQLMultiNodeRep(s[1], s[2], s[3], s[4], s[5], s[6], r.node), r.rest)

restoreGiving(s) ==
    LET exprlist == restoreNode(s)
        name == Head(exprlist.rest)
        type == restoreNode(Tail(exprlist.rest))
    IN  IF isValid(exprlist.node)
        THEN restored(TaQLGivingNodeRepExpr(exprlist.node), exprlist.rest)
        ELSE restored(TaQLGivingNodeRepName(name, type.node), type.rest)

restoreRecFld(s) ==
    LET name == s[1]
        fromName == s[2]
        dtype == s[3]
        values == restoreNode(SubSeq(s, 4, Len(s)))
    IN  IF fromName = ""
        THEN restored(TaQLRecFldNodeRepValues(name, values.node, dtype), values.rest)
        ELSE restored(TaQLRecFldNodeRepFrom(name, fromName, dtype), values.rest)

restore(kind, s) ==
    CASE kind = "Const" -> restoreConst(s)
      [] kind = "Multi" -> restoreMulti(s)
      [] kind = "Giving" -> restoreGiving(s)
      [] kind = "RecFld" -> restoreRecFld(s)
      [] OTHER ->
             LET nf == Layout[kind].fields
                 r == restoreNodes(SubSeq(s, nf + 1, Len(s)), Len(Layout[kind].slots), <<>>)
                 n == construct(kind, SubSeq(s, 1, nf), r.node)
             IN  IF Layout[kind].restoreSuper THEN restoreSuper(n, r.rest)
                 ELSE restored(n, r.rest)

RECURSIVE show(_)
\* the text of a node as the sequence of its parts; TaQLQueryNodeRep::show
\* puts the text of a query node between [ and ] if itsBrackets is set
showNodes(nodes) == Flatten([i \in 1..Len(nodes) |-> show(nodes[i])])

show(n) ==
    IF ~isValid(n) THEN <<>>
    ELSE LET showDerived == <<n.kind>> \o n.fields \o showNodes(n.children)
         IN  IF n.flags # <<>> /\ n.flags[1]
             THEN <<"[">> \o showDerived \o <<"]">> ELSE showDerived

\* a node as the value of a TaQLMultiNode member
asMulti(n) ==
    IF ~isValid(n) \/ n.kind = "Multi" THEN n
    ELSE TaQLMultiNodeRep(FALSE, "", "", ",", "", 1, <<n>>)

ConstNodes ==
    {ConstBool(TRUE), ConstInt(1), ConstSubTable(1, "$1"), ConstReal(1, ""),
     ConstReal(1, "m"), ConstString("a", FALSE), ConstString("a", TRUE)}

FieldValues == {0, 1}

\* setBrackets
bracketed(n) == [n EXCEPT !.flags[1] = TRUE]

\* the nodes given to a constructor as a child
ChildNodes ==
    {NullNode} \cup ConstNodes \cup
    {construct("KeyCol", <<1, 1>>, <<>>),
     construct("Unary", <<1>>, <<ConstInt(1)>>),
     bracketed(construct("Count", <<>>, <<NullNode, NullNode, NullNode, ConstBool(TRUE)>>)),
     bracketed(construct("ConcTab", <<1>>, <<NullNode, NullNode>>))}

building(n) ==
    /\ ~isValid(node)
    /\ node' = n
    /\ UNCHANGED <<aio, res>>
    /\ UNCHANGED otherVarsNode

NewConst == \E n \in ConstNodes : building(n)

NewMulti ==
    \E isSetOrArray \in BOOLEAN, prefix \in {"", "["}, incr \in 1..2,
       first \in ChildNodes, second \in ChildNodes :
        building(TaQLMultiNodeRep(isSetOrArray, prefix, IF prefix = "" THEN "" ELSE "]",
                                  ",", IF incr = 1 THEN "" ELSE ";", incr,
                                  IF ~isValid(first) THEN <<>>
                                  ELSE IF ~isValid(second) THEN <<first>>
                                  ELSE <<first, second>>))

NewGiving ==
    \E child \in ChildNodes :
        \/ /\ isValid(child)
           /\ building(TaQLGivingNodeRepExpr(asMulti(child)))
        \/ building(TaQLGivingNodeRepName("t", asMulti(child)))

NewRecFld ==
    \E dtype \in Dtypes, child \in ChildNodes :
        \/ building(TaQLRecFldNodeRepValues("f", child, dtype))
        \/ building(TaQLRecFldNodeRepFrom("f", "g", dtype))

NewNode ==
    \E kind \in NodeKinds, v \in FieldValues, dtype \in Dtypes, all \in BOOLEAN,
       child \in ChildNodes :
        LET slots == Layout[kind].slots
            fields == [i \in 1..Layout[kind].fields |->
                          IF kind \in DtypeKinds /\ i = 3 THEN dtype ELSE v]
            children == [i \in 1..Len(slots) |->
                            IF ~all /\ i > 1 THEN NullNode
                            ELSE IF slots[i] = "m" THEN asMulti(child) ELSE child]
        IN  /\ kind \in DtypeKinds \/ dtype = ""
            /\ building(construct(kind, fields, children))

setFlag(i) ==
    /\ aio = <<>>
    /\ node.kind \in QueryKinds
    /\ ~node.flags[i]
    /\ node' = [node EXCEPT !.flags[i] = TRUE]
    /\ UNCHANGED <<aio, res>>
    /\ UNCHANGED otherVarsNode

SetBrackets == setFlag(1)

SetNoExecute == setFlag(2)

SetFromExecute == setFlag(3)

SaveNode ==
    /\ aio = <<>>
    /\ isValid(node)
    /\ aio' = saveNode(node)
    /\ UNCHANGED <<node, res>>
    /\ UNCHANGED otherVarsNode

RestoreNode ==
    /\ aio # <<>>
    /\ res = Idle
    /\ LET r == restoreNode(aio)
       IN  res' = [op |-> "restoreNode", node |-> r.node, rest |-> r.rest]
    /\ UNCHANGED <<node, aio>>
    /\ UNCHANGED otherVarsNode

InitBucket ==
    /\ bkt = ISMBucket
    /\ res = Idle

Init ==
    /\ InitBucket
    /\ InitView
    /\ InitGram
    /\ InitRef
    /\ InitFile
    /\ InitInd
    /\ InitNode
    /\ InitWide

Next ==
    \/ AddData
    \/ ReplaceData
    \/ ShiftLeft
    \/ WriteRead
    \/ Split

Spec == Init /\ [][Next]_vars

NextGet ==
    \/ AddData
    \/ ReplaceData
    \/ ShiftLeft
    \/ Get

SpecGet == Init /\ [][NextGet]_vars

NextPut ==
    \/ AddData
    \/ ReplaceData
    \/ ShiftLeft
    \/ ReplaceDataLast
    \/ AddDataLast

SpecPut == Init /\ [][NextPut]_vars

NextWrite ==
    \/ AddDataNear
    \/ WriteRead

SpecWrite == Init /\ [][NextWrite]_vars

NextView ==
    \/ ViewFromRows(FALSE)
    \/ ViewFromRows(TRUE)
    \/ ViewFromMask(FALSE)
    \/ ViewFromMask(TRUE)
    \/ AdjustRownrs

SpecView == Init /\ [][NextView]_vars

NextPersist ==
    \/ ViewFromMask(FALSE)
    \/ WriteRefTable
    \/ RootAddRow
    \/ RootRemoveRow
    \/ GetRef

SpecPersist == Init /\ [][NextPersist]_vars

NextReload ==
    \/ WideView
    \/ WideWrite
    \/ WideGet

SpecReload == Init /\ [][NextReload]_vars

NextMutate ==
    \/ OpenReadOnly
    \/ ViewFromMask(FALSE)
    \/ RemoveRow
    \/ RemoveAllRow
    \/ RemoveColumn
    \/ RenameColumn
    \/ AddColumn

SpecMutate == Init /\ [][NextMutate]_vars

NextInd ==
    \/ Attach
    \/ GetShape
    \/ IncrementRefCount
    \/ DecrementRefCount
    \/ SetShape
    \/ CopyDataInd
    \/ GetArrayV
    \/ PutArrayV
    \/ GetSliceV
    \/ PutSliceV

SpecInd == Init /\ [][NextInd]_vars

NextNode ==
    \/ NewConst
    \/ NewMulti
    \/ NewGiving
    \/ NewRecFld
    \/ NewNode
    \/ SetBrackets
    \/ SetNoExecute
    \/ SetFromExecute
    \/ SaveNode
    \/ RestoreNode

SpecNode == Init /\ [][NextNode]_vars

NextScenario ==
    \/ StoreX
    \/ PutX
    \/ ViewFromRows(FALSE)
    \/ RefGet

SpecScenario == Init /\ [][NextScenario]_vars

NextRef ==
    \/ RefAnd
    \/ RefOr
    \/ RefSub
    \/ RefXor
    \/ RefNot

SpecRef == Init /\ [][NextRef]_vars

\* the row numbers of a view: the first nrrow elements of rowStorage_p
rowsOf(t) == SubSeq(t.rowStorage, 1, t.nrrow)

\* the row numbers the set operation leaves in a view of zero rows
andRows(a, b) == rowsOf(refAnd(RefTable(TRUE, 0), a, b))

orRows(a, b) == rowsOf(refOr(RefTable(TRUE, 0), a, b))

subRows(a, b) == rowsOf(refSub(RefTable(TRUE, 0), a, b))

xorRows(a, b) == rowsOf(refXor(RefTable(TRUE, 0), a, b))

otherVarsLaws == <<bkt, view, pc, mutex, theirTokens, gram, thr, root, ref, file, ios, arrays, node, aio, wide>>

\* refAnd on three arrays in both orders and both groupings; the rows of one
\* result are the array of the next call
AndLaws ==
    \E a \in AscendingSeqs : \E b \in AscendingSeqs : \E c \in AscendingSeqs :
        /\ res = Idle
        /\ res' = [op |-> "andLaws", a |-> a, b |-> b, c |-> c,
                   ab |-> andRows(a, b), ba |-> andRows(b, a),
                   ab_c |-> andRows(andRows(a, b), c),
                   a_bc |-> andRows(a, andRows(b, c))]
        /\ UNCHANGED otherVarsLaws

\* refXor on two arrays, and refSub on the rows of refOr and of refAnd
XorLaw ==
    \E a \in AscendingSeqs : \E b \in AscendingSeqs :
        /\ res = Idle
        /\ res' = [op |-> "xorLaw", a |-> a, b |-> b,
                   xor |-> xorRows(a, b),
                   sub |-> subRows(orRows(a, b), andRows(a, b))]
        /\ UNCHANGED otherVarsLaws

(***************************************************************************)
(* getSplit on the lengths split computes from the items of the rows       *)
(***************************************************************************)
MaxSplitRows == 4

\* lengths of an item with its two index words
ItemLengs == {9, 12, 20}

\* itemLeng of the rows: every column has an item in the first row, every
\* further row has an item in some column
ItemLengRows(n) ==
    {m \in [1..n -> [Cols -> ItemLengs \cup {0}]] :
        /\ \A i \in Cols : m[1][i] # 0
        /\ \A j \in 2..n : \E i \in Cols : m[j][i] # 0}

GetSplit ==
    \E n \in 1..MaxSplitRows : \E itemLeng \in ItemLengRows(n) :
        /\ res = Idle
        /\ LET lens == splitLengths(itemLeng, 1, [i \in Cols |-> 0],
                          [rowLeng |-> <<>>, cumLeng |-> <<>>, totLeng |-> 0])
           IN  res' = [op |-> "getSplit", totLeng |-> lens.totLeng,
                       rowLeng |-> lens.rowLeng, cumLeng |-> lens.cumLeng,
                       index |-> getSplit(lens.totLeng, lens.rowLeng, lens.cumLeng)]
        /\ UNCHANGED otherVarsLaws

NextGetSplit == GetSplit

SpecGetSplit == Init /\ [][NextGetSplit]_vars

NextRowOrd ==
    \/ MakeRefTable
    \/ AddRownr
    \/ AddRownrRange
    \/ RemoveViewRow
    \/ SetNrrow
    \/ RefAnd
    \/ RefOr
    \/ RefSub
    \/ RefXor
    \/ RefNot

SpecRowOrd == Init /\ [][NextRowOrd]_vars

NextLaws ==
    \/ AndLaws
    \/ XorLaw

SpecLaws == Init /\ [][NextLaws]_vars

NextParse ==
    \E t \in Threads :
        \/ ParseLock(t)
        \/ ParseBegin(t)
        \/ ParseInput(t)
        \/ ParseScan(t)
        \/ ParseDeleteToken(t)
        \/ ParseThrow(t)
        \/ ParseAccept(t)
        \/ ParseCleanup(t)
        \/ ParseRethrow(t)
        \/ ParseReturn(t)

SpecParse == Init /\ [][NextParse]_vars

\* the steps of one thread
ParseStep(t) ==
    \/ ParseLock(t)
    \/ ParseBegin(t)
    \/ ParseInput(t)
    \/ ParseScan(t)
    \/ ParseDeleteToken(t)
    \/ ParseThrow(t)
    \/ ParseAccept(t)
    \/ ParseCleanup(t)
    \/ ParseRethrow(t)
    \/ ParseReturn(t)

\* every thread keeps running: a thread that can take a step, or that waits
\* for a mutex that stays free, takes it
SpecParseFair == SpecParse /\ \A t \in Threads : WF_vars(ParseStep(t))


(***************************************************************************)
(* Claims about the bucket                                                 *)
(***************************************************************************)
\* number of rows of the bucket used for the end of the last interval
TestNrrow == <<3, 0>>

getResult(b, colnr, rownr) ==
    LET g == getInterval(b, colnr, rownr, TestNrrow)
    IN  [start |-> g.start, end |-> g.end, value |-> get(b, colnr, g.offset)]

\* C1: after write followed by read into a fresh bucket, every column and
\* every row that get serves on the original bucket is served by the fresh
\* bucket with the same run interval and the same payload bytes.
C1_RoundTrip ==
    res.op = "read" =>
        \A c \in Cols : \A r \in Rows :
            intervalDefined(bkt, c, r) =>
                /\ intervalDefined(res.fresh, c, r)
                /\ getResult(res.fresh, c, r) = getResult(bkt, c, r)

C1_Witness ==
    /\ res.op = "read"
    /\ ~res.use32
    /\ \E c \in Cols : indexUsed(bkt, c) >= 2 /\ intervalDefined(bkt, c, <<2, 1>>)
    /\ indexUsed(bkt, 2) >= 1

C3_RightStart ==
    res.op = "split" =>
        \A c \in Cols :
            get(res.right, c, res.right.offIndex[c][1])
              = get(bkt, c, getOffset(bkt, c, res.splitRownr))

\* C4: the row index of every column is strictly increasing in every bucket
\* reached by addData calls that satisfy the insertion precondition.
C4_AddKeepsIncreasing == check(bkt)

\* C5: index length plus data length never exceeds the bucket size, in the
\* bucket after addData, replaceData and shiftLeft, in a bucket read back and
\* in both halves of a split.
C5_Capacity ==
    /\ bucketFits(bkt)
    /\ res.op = "read" => bucketFits(res.fresh)
    /\ res.op = "split" => bucketFits(res.left) /\ bucketFits(res.right)

\* a bucket too full for another value of the fixed-length column is split
C5_Witness ==
    /\ res.op = "split"
    /\ ~canAddData(bkt, FixedLength[1])
    /\ indexUsed(res.left, 2) >= 1
    /\ indexUsed(res.right, 2) >= 1

(***************************************************************************)
(* Claims about the set operations of the row-number views                 *)
(***************************************************************************)
\* the row list of the view: the first nrrow elements of its storage
viewRows == SubSeq(view.table.rowStorage, 1, view.table.nrrow)

\* the rows the operation last applied has to leave in the view
expectedRows ==
    LET A == Range(view.a)
        B == Range(view.b)
    IN  CASE view.op = "and" -> A \cap B
          [] view.op = "or" -> A \cup B
          [] view.op = "sub" -> A \ B
          [] view.op = "xor" -> (A \ B) \cup (B \ A)
          [] view.op = "not" -> (0..(view.nrtot - 1)) \ A
          [] OTHER -> {}

viewHolds(S) ==
    /\ view.table.nrrow <= Len(view.table.rowStorage)
    /\ view.table.nrrow = Cardinality(S)
    /\ Range(viewRows) = S
    /\ \A k \in 1..(view.table.nrrow - 1) : viewRows[k] < viewRows[k + 1]

\* C6: AND, OR, SUBTRACT and XOR of two strictly ascending arrays leave in a
\* view of zero rows exactly the intersection, the union, the difference and
\* the symmetric difference, strictly ascending, with nrrow the number of
\* rows emitted.
C6_SetOperations ==
    view.op \in {"and", "or", "sub", "xor"} => viewHolds(expectedRows)

C6_Witness ==
    /\ view.op = "xor"
    /\ Range(view.a) \cap Range(view.b) # {}
    /\ Range(view.a) \ Range(view.b) # {}
    /\ Range(view.b) \ Range(view.a) # {}
    /\ view.table.nrrow >= 2

\* C7: NOT of a strictly ascending array of rows below nrtot leaves in a view
\* of zero rows every row of 0 .. nrtot-1 that is not listed, ascending, and
\* nrrow is nrtot minus the length of the array.
C7_Not ==
    view.op = "not" =>
        /\ viewHolds(expectedRows)
        /\ view.table.nrrow = view.nrtot - Len(view.a)

C7_Witness ==
    /\ view.op = "not"
    /\ Len(view.a) >= 2
    /\ view.a[1] > 0
    /\ view.nrtot > view.a[Len(view.a)] + 1

(***************************************************************************)
(* Claims about the parser                                                 *)
(***************************************************************************)
\* the threads past the lock guard of parse
inParse == {t \in Threads : InSection(t)}

\* C8: at most one thread is inside parse; the scanner pointer and position,
\* the context pointers and the token table are those of that thread, and
\* while it is inside no other caller gets past the lock.
C8_ParseExclusive ==
    /\ Cardinality(inParse) <= 1
    /\ \A t \in inParse :
          /\ mutex = t
          /\ ~lockAcquirable(mutex)
          /\ pc[t] # "locked" =>
                /\ gram.strpOf = t
                /\ gram.pos = thr[t].scanned
                /\ gram.recPtr + gram.tabPtr = t
                /\ theirTokens = gram.heap

C8_Witness ==
    \E t \in Threads : \E u \in Threads \ {t} :
        /\ pc[t] = "parsing"
        /\ gram.pos >= 1
        /\ theirTokens # {}
        /\ pc[u] = "idle"

\* C9: when an exception has aborted the parse, every token still tracked has
\* been deleted and the table is empty before the error is thrown again, and
\* the error thrown carries the message followed by the text scanned so far.
C9_ErrorCleanup ==
    \A t \in Threads :
        /\ pc[t] = "cleaned" /\ thr[t].error =>
              theirTokens = {} /\ gram.heap = {}
        /\ thr[t].outcome = "error" =>
              thr[t].text = <<thr[t].message, newline, "Scanned so far: ",
                              SubSeq(thr[t].command, 1, thr[t].scanned)>>

C9_Witness ==
    \E t \in Threads :
        /\ thr[t].outcome = "error"
        /\ thr[t].scanned >= 1
        /\ thr[t].scanned < Len(thr[t].command)

(***************************************************************************)
(* Claims about get                                                        *)
(***************************************************************************)
\* C10: a get for a row with no index entry at or before it is reported as
\* an error.
C10_GetReportsError == res.op = "getUB" => res.result = "indexError"

(***************************************************************************)
(* Claims about put                                                        *)
(***************************************************************************)
\* the payload of index entry j (1-based) of column c
entryValue(b, c, j) == get(b, c, b.offIndex[c][j])

\* C11: replaceData overwrites the payload in place (same offset, same data
\* length) when the length is unchanged and otherwise removes the old payload
\* and inserts the new one at the end of the data; the entry then reads the
\* new value and every other index entry of every column reads the payload
\* bytes it read before.
C11_ReplaceFrame ==
    res.op = "replace" =>
        LET old == res.old
            c == res.colnr
            j == res.index + 1
            oldLeng == Len(entryValue(old, c, j))
        IN  /\ IF oldLeng = Len(res.value)
               THEN /\ bkt.offIndex[c][j] = old.offIndex[c][j]
                    /\ dataLeng(bkt) = dataLeng(old)
               ELSE /\ bkt.offIndex[c][j] = dataLeng(old) - oldLeng
                    /\ dataLeng(bkt) = dataLeng(old) - oldLeng + Len(res.value)
            /\ entryValue(bkt, c, j) = res.value
            /\ bkt.rowIndex = old.rowIndex
            /\ bkt.indexLeng = old.indexLeng
            /\ \A i \in Cols : \A k \in 1..indexUsed(old, i) :
                  <<i, k>> # <<c, j>> =>
                      entryValue(bkt, i, k) = entryValue(old, i, k)

\* a value of another length replaces one that has values stored behind it
C11_Witness ==
    /\ res.op = "replace"
    /\ Len(entryValue(res.old, res.colnr, res.index + 1)) # Len(res.value)
    /\ \E i \in Cols : \E k \in 1..indexUsed(res.old, i) :
          res.old.offIndex[i][k] > res.old.offIndex[res.colnr][res.index + 1]
    /\ indexUsed(res.old, 1) >= 1

\* what get returns for a row: the payload of the interval holding it
getValue(b, colnr, rownr) == get(b, colnr, getOffset(b, colnr, rownr))

\* C12: after addData of value v for a column at row r, get(column, r) is v
\* and get(column, q) is unchanged for every row q < r; when r started a run,
\* that run's entry is moved to r+1 and get(column, r+1) is the value the
\* run had.
C12_AddThenGet ==
    res.op = "add" =>
        LET old == res.old
            c == res.colnr
            r == res.rownr
            j == res.index + 1
        IN  /\ getValue(bkt, c, r) = res.value
            /\ \A q \in Rows :
                  RowLess(q, r) /\ intervalDefined(old, c, q) =>
                      getValue(bkt, c, q) = getValue(old, c, q)
            /\ (IF j <= indexUsed(old, c) THEN old.rowIndex[c][j] = r ELSE FALSE) =>
                  /\ bkt.rowIndex[c][j + 1] = RowInc(r)
                  /\ getValue(bkt, c, RowInc(r)) = entryValue(old, c, j)

(***************************************************************************)
(* Claims about reference tables                                           *)
(***************************************************************************)
strictlyIncreasing(q) == \A i \in 1..(Len(q) - 1) : q[i] < q[i + 1]

\* C13: a view made from a row vector or a mask over a view stores for every
\* given row the root row the parent holds for it (one indirection), and its
\* row-order flag is true exactly when the stored rows are strictly
\* increasing; adjustRownrs told not to determine the order returns true.
C13_AdjustRownrs ==
    /\ ref.kind = "view" /\ ref.onView =>
          /\ ref.table.nrrow = Len(ref.given)
          /\ Len(ref.table.rowStorage) = Len(ref.given)
          /\ \A i \in 1..Len(ref.given) :
                ref.table.rowStorage[i] = ref.parentRows[ref.given[i] + 1]
          /\ ref.table.rowOrd = strictlyIncreasing(ref.table.rowStorage)
    /\ res.op = "adjust" =>
          /\ \A i \in 1..Len(res.given) :
                res.rowStorage[i] = ref.table.rowStorage[res.given[i] + 1]
          /\ res.determineOrder => res.rowOrder = strictlyIncreasing(res.rowStorage)
          /\ ~res.determineOrder => res.rowOrder

\* a view over a view that holds its rows out of order; the new view takes
\* two of them so that the result is ordered although the vector given is
\* not
C13_Witness ==
    /\ ref.kind = "view"
    /\ ref.onView
    /\ ref.how = "rows"
    /\ Len(ref.given) >= 2
    /\ ~strictlyIncreasing(ref.given)
    /\ ref.table.rowOrd
    /\ ref.parentRows # ref.table.rowStorage

\* the view REF of the scenario, made after put (X, 4, 3), and a get of X
\* through it
scenarioGet ==
    /\ res.op = "refget"
    /\ root.put
    /\ ref.how = "rows"
    /\ ref.given = <<3, 4, 0>>

\* X after put (X, 4, 3)
XAfterPut == <<1, 1, 1, 2, 3>>

\* C14 as stated: REF.get(X, 0) = 3.
C14_RefGetAsStated ==
    scenarioGet /\ res.rownr = 0 => res.value = XPayload(3)

\* C14: REF.get(X, r) is the value of X at root row [3,4,0][r]: 2 for row 0
\* (root row 3), 3 for row 1 (root row 4 after the put), 1 for row 2.
C14_RefGet ==
    scenarioGet =>
        /\ res.rootRow = ref.given[res.rownr + 1]
        /\ res.value = XPayload(XAfterPut[res.rootRow + 1])
        /\ res.rownr = 0 => res.value = XPayload(2)
        /\ res.rownr = 1 => res.value = XPayload(3)

C14_Witness == scenarioGet /\ res.rownr = 0

\* C15: loading a persisted view fails with the "rows decreased" error
\* exactly when the root row count recorded in the file is greater than the
\* row count of the root as reopened; a root with as many rows or more loads.
C15_GetRefRootShrunk ==
    res.op = "getRef" =>
        /\ (res.kind = "TableInvOper") <=> RowLess(Rn(root.nrow), file.rootNrow)
        /\ ~RowLess(Rn(root.nrow), file.rootNrow) => res.kind = "view"

\* both sides of the comparison: a root one row short of the record is
\* refused (this state), a root with exactly the recorded rows is the
\* boundary the invariant covers in the same run
C15_Witness ==
    /\ res.op = "getRef"
    /\ res.kind = "TableInvOper"
    /\ file.rootNrow = Rn(RootNrow)
    /\ root.nrow = RootNrow - 1
    /\ Len(file.rows) > 0

\* C16: removeRow, removeAllRow, removeColumn and renameColumn change the
\* view only (row operations its row list, column operations its name map
\* and description) and leave the root's rows, columns and data as they
\* were; addColumn changes the root only by defining the new column there,
\* only when the root does not have it and addToParent is set.
C16_MutationFrame ==
    /\ res.op \in {"removeRow", "removeAllRow", "removeColumn", "renameColumn"} =>
          /\ root = res.root
          /\ bkt = ISMBucket
          /\ file = NoFile
    /\ res.op \in {"removeRow", "removeAllRow"} =>
          /\ ref.desc = res.desc
          /\ ref.nameMap = res.nameMap
    /\ res.op \in {"removeColumn", "renameColumn"} => ref.table = res.table
    /\ res.op = "addColumn" =>
          /\ bkt = ISMBucket
          /\ root.nrow = res.root.nrow
          /\ ref.table = res.table
          /\ root # res.root =>
                /\ res.addToParent
                /\ res.name \notin res.root.cols
                /\ root = [res.root EXCEPT !.cols = @ \cup {res.name}]

\* a column the root did not have was added with addToParent to a view
\* that had lost rows and whose columns had been renamed
C16_Witness ==
    /\ res.op = "addColumn"
    /\ res.addToParent
    /\ ~res.thrown
    /\ root.cols = {"X", "Y", "Z"}
    /\ res.root.cols = {"X", "Y"}
    /\ ref.table.nrrow < Len(ref.given)
    /\ "X" \notin ref.desc

\* C17: setShape on a cell that has a shape, with that same shape, returns
\* false and makes no call on the file; the object (file offset, array
\* offset, shape) and the file with its length stay as they were.
C17_SetShapeSame ==
    res.op = "setShape" /\ res.defined /\ res.same =>
        /\ res.result = FALSE
        /\ res.calls = <<>>
        /\ res.kept

\* the cell got its shape with a handled data type, and the same shape is
\* set again
C17_Witness ==
    /\ res.op = "setShape"
    /\ res.defined
    /\ res.same
    /\ res.dataType \in KnownTypes
    /\ arrays[res.cell].fileOffset \in DOMAIN ios.slots
    /\ ios.leng = fileHeader + slotSize(arrays[res.cell].shape, res.dataType)

C19_UnknownType ==
    /\ res.op \in {"setShape", "copyData", "getArrayV", "putArrayV",
                   "getSliceV", "putSliceV"}
    /\ res.dataType \notin KnownTypes
    => /\ res.thrown = "DataManInternalError"
       /\ res.calls = <<>>


\* C20: a node that was saved and restored has the same members, flags and
\* children as the original, and so shows the same text, whatever its kind
C20_SaveRestore ==
    res.op = "restoreNode" =>
        /\ res.node = node
        /\ res.rest = <<>>
        /\ show(res.node) = show(node)

(***************************************************************************)
(* Claims about the row-number width of the bucket storage                 *)
(***************************************************************************)
\* whether some index entry of the bucket is a row above the 32-bit range
anyRowAbove32(b) ==
    \E c \in Cols : \E j \in 1..indexUsed(b, c) :
        RowLess(<<0, MAXROWNR32>>, b.rowIndex[c][j])

\* C21: write stores 32-bit row numbers, with the top bit of the offset word
\* clear, exactly when no row number of any column's index exceeds the 32-bit
\* range, and 64-bit row numbers with the bit set otherwise; read takes the
\* width from that bit and so reads the index back as it was.
C21_WidthByRows ==
    res.op = "read" =>
        /\ res.use32 = ~anyRowAbove32(bkt)
        /\ res.fresh.rowIndex = bkt.rowIndex

(***************************************************************************)
(* Claims about writing and loading a reference table                      *)
(***************************************************************************)
RECURSIVE sumOf(_)
sumOf(q) == IF q = <<>> THEN 0 ELSE Head(q) + sumOf(Tail(q))

\* every call takes at least one and at most ChunkRows row numbers, and the
\* calls together take n
chunked(todos, n) ==
    /\ \A k \in 1..Len(todos) : todos[k] >= 1 /\ todos[k] <= ChunkRows
    /\ sumOf(todos) = n

\* C22: a reference table written by writeRefTable and loaded by getRef has
\* the same row count, row-order flag and row numbers in the same order, in
\* version 2 (32-bit) and in version 3 (native width); the row list is put
\* and got in calls of at most the chunk size that together cover exactly
\* the row count written.
C22_Reload ==
    res.op = "reload" =>
        /\ res.view.kind = "view"
        /\ res.view.table.nrrow = wide.table.nrrow
        /\ res.view.table.rowOrd = wide.table.rowOrd
        /\ res.view.table.rowStorage = wide.table.rowStorage
        /\ file.version \in {2, 3}
        /\ file.nrrow = Rn(wide.table.nrrow)
        /\ chunked(file.puts, wide.table.nrrow)
        /\ chunked(res.gets, wide.table.nrrow)

\* a version 3 file whose rows took more than one call
C22_Witness ==
    /\ res.op = "reload"
    /\ file.version = 3
    /\ Len(file.puts) >= 2
    /\ \E i \in 1..wide.table.nrrow : wide.table.rowStorage[i] = <<2, 1>>
    /\ ~wide.table.rowOrd

\* a version 2 file whose rows took more than one call
C22_Witness2 ==
    /\ res.op = "reload"
    /\ file.version = 2
    /\ Len(file.puts) >= 2

(***************************************************************************)
(* Claims about the laws of the set operations                             *)
(***************************************************************************)
\* C23: AND is commutative and associative: AND(A,B) = AND(B,A) and
\* AND(AND(A,B),C) = AND(A,AND(B,C)) for strictly ascending arrays.
C23_AndLaws ==
    res.op = "andLaws" =>
        /\ res.ab = res.ba
        /\ res.ab_c = res.a_bc

\* three arrays that differ, share a row and each have a row of their own
C23_Witness ==
    /\ res.op = "andLaws"
    /\ res.ab_c # <<>>
    /\ res.ab # res.ab_c
    /\ Range(res.a) \ Range(res.b) # {}
    /\ Range(res.b) \ Range(res.a) # {}
    /\ Range(res.c) \ Range(res.a) # {}

\* C24: XOR(A,B) = SUBTRACT(OR(A,B), AND(A,B)).
C24_XorLaw ==
    res.op = "xorLaw" => res.xor = res.sub

C24_Witness ==
    /\ res.op = "xorLaw"
    /\ Range(res.a) \cap Range(res.b) # {}
    /\ Range(res.a) \ Range(res.b) # {}
    /\ Range(res.b) \ Range(res.a) # {}
    /\ Len(res.xor) >= 2

(***************************************************************************)
(* Claims about split                                                      *)
(***************************************************************************)
\* the rows at which a value is looked up: the rows of the model, the rows
\* of the index entries and the split row
lookupRows(b, S) ==
    Rows \cup {S} \cup UNION {{b.rowIndex[i][j] : j \in 1..indexUsed(b, i)} : i \in Cols}

\* get of a row gives the value v
getGives(b, colnr, rownr, v) ==
    /\ intervalDefined(b, colnr, rownr)
    /\ get(b, colnr, getOffset(b, colnr, rownr)) = v

\* the value of a row in the bucket that was split
original(colnr, rownr) == get(bkt, colnr, getOffset(bkt, colnr, rownr))

\* C25: after a split with split row S every row keeps its value: a row
\* r < S has in the left bucket the value the original has for r, and a row
\* r >= S has it in the right bucket at row r - S.
C25_SplitKeepsValues ==
    res.op = "split" =>
        \A colnr \in Cols : \A r \in lookupRows(bkt, res.splitRownr) :
            IF RowLess(r, res.splitRownr)
            THEN getGives(res.left, colnr, r, original(colnr, r))
            ELSE getGives(res.right, colnr, RowSub(r, res.splitRownr),
                          original(colnr, r))

\* a split that is not simple, with values on both sides and a column whose
\* start value in the right bucket is carried forward
C25_Witness ==
    /\ res.op = "split"
    /\ ~res.simple
    /\ check(bkt)
    /\ \E colnr \in Cols : res.duplicated[colnr]
    /\ \E colnr \in Cols : indexUsed(res.right, colnr) >= 2
    /\ \E colnr \in Cols : indexUsed(res.left, colnr) >= 2

\* the sizes of the two buckets when the rows are split at index i (0-based)
leftSize(i) == res.cumLeng[i]

rightSize(i) == res.rowLeng[i + 1] + res.totLeng - res.cumLeng[i + 1]

sizeDiff(i) ==
    IF leftSize(i) < rightSize(i) THEN rightSize(i) - leftSize(i)
    ELSE leftSize(i) - rightSize(i)

\* the index at which the advance stops
RECURSIVE stopIndex(_)
stopIndex(i) ==
    IF leftSize(i) < rightSize(i) /\ i < Len(res.rowLeng) - 1
    THEN stopIndex(i + 1) ELSE i

\* the stopping index and, where the advance moved, the index before it
splitCandidates == {i \in {stopIndex(1) - 1, stopIndex(1)} : i >= 1}

\* C26: getSplit returns 1 for at most two distinct rows; otherwise it
\* advances the index while the left size is smaller than the right size,
\* stopping at the last index, and returns whichever of the stopping index
\* and its predecessor gives the smaller difference of left and right size.
C26_GetSplit ==
    res.op = "getSplit" =>
        IF Len(res.rowLeng) <= 2 THEN res.index = 1
        ELSE /\ res.index \in splitCandidates
             /\ \A i \in splitCandidates : sizeDiff(res.index) <= sizeDiff(i)

\* the column has in the bucket that was split an entry at the split row
runStartsAt(colnr, S) ==
    \E j \in 1..indexUsed(bkt, colnr) : bkt.rowIndex[colnr][j] = S

\* C27: after a split duplicated[col] is true exactly for the columns whose
\* start value in the right bucket is a carried-forward copy of a value whose
\* run began before the split row and is still held by the left bucket, and
\* false exactly for the columns whose own run starts at the split row, the
\* value being held by the right bucket only.
C27_Duplicated ==
    res.op = "split" =>
        \A colnr \in Cols :
            LET S == res.splitRownr
                nleft == indexUsed(res.left, colnr)
            IN  /\ res.duplicated[colnr] = ~runStartsAt(colnr, S)
                /\ indexUsed(res.right, colnr) >= 1
                /\ res.right.rowIndex[colnr][1] = Rn(0)
                /\ entryValue(res.right, colnr, 1) = original(colnr, S)
                /\ \A j \in 1..nleft : RowLess(res.left.rowIndex[colnr][j], S)
                /\ res.duplicated[colnr] =>
                       /\ nleft >= 1
                       /\ entryValue(res.left, colnr, nleft)
                            = entryValue(res.right, colnr, 1)

\* a split that is not simple with a carried-forward column and a column
\* whose run starts at the split row
C27_Witness ==
    /\ res.op = "split"
    /\ ~res.simple
    /\ check(bkt)
    /\ \E colnr \in Cols : res.duplicated[colnr]
    /\ \E colnr \in Cols : ~res.duplicated[colnr]
    /\ \E colnr \in Cols : indexUsed(res.right, colnr) >= 2

\* a simple split that takes the last value of a column out of the left bucket
C27_WitnessSimple ==
    /\ res.op = "split"
    /\ res.simple
    /\ check(bkt)
    /\ \E colnr \in Cols : res.duplicated[colnr]
    /\ \E colnr \in Cols : ~res.duplicated[colnr] /\ indexUsed(res.left, colnr) >= 1

\* C29: after a split of a bucket in which every column has an index entry
\* at row 0, every column of the left and of the right bucket has at least
\* one index entry and its first entry is at row 0, so that get on either
\* half never looks before the first entry.
C29_HalvesStartAtRow0 ==
    res.op = "split" =>
        /\ startsAtRow0(res.left)
        /\ startsAtRow0(res.right)
        /\ \A colnr \in Cols : \A r \in Rows :
               /\ intervalDefined(res.left, colnr, r)
               /\ intervalDefined(res.right, colnr, r)

\* C28: whenever the row-order flag of a reference table is true, its row
\* numbers rowStorage[0..nrow) are strictly ascending, in every state reached
\* through construction, addRownr, addRownrRange, removeRow, setNrrow and
\* the set operations.
C28_RowOrdAscending == view.table.rowOrd => strictlyIncreasing(viewRows)

(***************************************************************************)
(* Claims about the progress of parse calls                                *)
(***************************************************************************)
\* C30: the parser lock is released whenever a parse call ends, with a
\* result or with an error, so every thread that waits in parse for the
\* lock eventually enters its parse and ends it.
C30_LockReleased ==
    /\ [](\A t \in Threads : pc[t] = "done" => mutex # t)
    /\ \A t \in Threads : (pc[t] = "idle") ~> InSection(t)
    /\ \A t \in Threads : InSection(t) ~> (pc[t] = "done")

\* a thread is in its parse after the call of another thread has ended with
\* an error
C30_Witness ==
    \E t \in Threads : \E u \in Threads :
        /\ pc[t] = "done"
        /\ thr[t].outcome = "error"
        /\ InSection(u)

====
